---- MODULE Spec2Model ----
(***************************************************************************)
(* Model of the document session manager of pkg/mcp/lsp.go: the document   *)
(* map of LanguageServer, its reader/writer lock, and the HTTP handlers    *)
(* that open, change, close and query documents.  Every in-flight request  *)
(* is a goroutine; a request slot holds the decoded call, the position of  *)
(* the handler (pc) and the response written to the client.                *)
(***************************************************************************)
EXTENDS Integers, Sequences, FiniteSets, TLC

(* ----------------------------- bounds --------------------------------- *)
\* number of requests that can be in flight at the same time
MaxReqs == 2

Reqs == 1..MaxReqs

(* ----------------------------- inputs --------------------------------- *)
\* uris a client opens documents under, and the empty uri a query can carry
DocURIs == {"a.go", "b.go"}
URIs == DocURIs \cup {""}

\* A source text after the package clause: the sequence of its top-level
\* declarations.  kind "bad" is a declaration the Go parser rejects.
FuncF == [kind |-> "func", name |-> "F"]
FuncG == [kind |-> "func", name |-> "G"]
TypeT == [kind |-> "type", name |-> "T"]
VarV == [kind |-> "var", name |-> "v"]
BadDecl == [kind |-> "bad", name |-> ""]

TextA == <<FuncF, TypeT>>
TextB == <<VarV, FuncG>>
TextBad == <<FuncF, BadDecl>>

\* The TextDocumentItem payloads (text, version) a client sends
Item(text, version) == [text |-> text, version |-> version]
ItemA == Item(TextA, 1)
ItemB == Item(TextB, 2)
ItemBad == Item(TextBad, 2)
Items == {ItemA, ItemB, ItemBad}

None == 0

\* Nodes of a function body as ast.Inspect visits them (pre-order)
IfStmt == [node |-> "IfStmt"]
ForStmt == [node |-> "ForStmt"]
RangeStmt == [node |-> "RangeStmt"]
CaseClause == [node |-> "CaseClause"]
CommClause == [node |-> "CommClause"]
CallExpr == [node |-> "CallExpr"]
BinaryExpr(op) == [node |-> "BinaryExpr", op |-> op]

\* Declarations of the sources sent to the analysis endpoints: functions
\* with their body, the number of lines of their doc comment, types with
\* the shape of their body
FuncRun == [kind |-> "func", name |-> "Run", body |-> <<CallExpr>>]
FuncWalk == [kind |-> "func", name |-> "Walk", doc |-> 1,
             body |-> <<IfStmt, ForStmt, RangeStmt, CaseClause, CommClause, BinaryExpr("&&")>>]
FuncSum == [kind |-> "func", name |-> "Sum", body |-> <<BinaryExpr("+")>>]
FuncTestRun == [kind |-> "func", name |-> "TestRun", body |-> <<IfStmt, CallExpr>>]
TypeS == [kind |-> "type", name |-> "S", typ |-> "struct"]
TypeI == [kind |-> "type", name |-> "I", typ |-> "interface"]

SrcRun == <<FuncRun, TypeS>>
SrcWalk == <<FuncWalk, VarV, TypeI>>
SrcSum == <<FuncSum, FuncTestRun>>
SrcBad == <<BadDecl>>

\* Import declarations, a qualified access pkg.Name inside a function body,
\* and the source of two imports (one used through a qualified call, one
\* never referenced) with an exported and an unexported function
ImportFmt == [kind |-> "import", name |-> "", path |-> "fmt"]
ImportOs == [kind |-> "import", name |-> "", path |-> "os"]
SelectorExpr(x, path) == [node |-> "SelectorExpr", x |-> x, path |-> path]
FuncHelper == [kind |-> "func", name |-> "helper",
               body |-> <<CallExpr, SelectorExpr("fmt", "fmt")>>]
SrcImports == <<ImportFmt, ImportOs, FuncRun, FuncHelper>>

Sources == {SrcRun, SrcWalk, SrcSum, SrcBad, SrcImports}
\* the file lists handed to AnalyzePackage
PackageFiles == {<<SrcRun, SrcWalk>>, <<SrcImports>>}
\* the sources sent to the metrics endpoint
MetricsSources == {SrcWalk, SrcBad}

(* ------------------------------ state --------------------------------- *)
VARIABLES
    documents,  \* LanguageServer.documents: uri -> Document
    mu,         \* LanguageServer.mu: the writer holding it and the readers
    call,       \* per request: the handler and its decoded parameters
    pc,         \* per request: position inside the handler
    result,     \* per request: the response written (status, body)
    hOpened,    \* history: uris for which an open with parsing text reached
                \* its commit and no close has run since
    hClosed     \* history: uris closed after such an open and not opened since

vars == <<documents, mu, call, pc, result, hOpened, hClosed>>

(* --------------------------- pure functions --------------------------- *)
\* parser.ParseFile: err != nil iff some declaration is malformed
HasSyntaxError(text) == \E i \in 1..Len(text) : text[i].kind = "bad"

\* a field of a node that not every node has
Attr(n, f, default) == IF f \in DOMAIN n THEN n[f] ELSE default

\* The text of a declaration: keyword, blank, name (an import: its quoted
\* path) on one line; a function with a body has one more line per node of
\* the body and a last line with the closing brace
Keyword(n) == n.kind
DeclName(n) == IF n.kind = "import" THEN n.path ELSE n.name
Height(n) == IF Attr(n, "body", <<>>) = <<>> THEN 1 ELSE Len(n.body) + 2
NameColumn(n) == Len(Keyword(n)) + 2
\* node.Pos(): a FuncDecl starts at its keyword, a spec after the keyword
PosColumn(n) == IF n.kind = "func" THEN 1 ELSE NameColumn(n)
\* node.End(): behind the name, or behind the closing brace in column 1
EndColumn(n) == IF Height(n) = 1 THEN NameColumn(n) + Len(DeclName(n)) ELSE 2

RECURSIVE StartLine(_, _)
StartLine(text, i) == IF i = 1 THEN 1 ELSE StartLine(text, i - 1) + Height(text[i - 1])

\* parser.ParseFile: the *ast.File, here the declarations with the lines
\* of their first and last character
ParseFile(text) ==
    [i \in 1..Len(text) |->
        text[i] @@ [line |-> StartLine(text, i),
                    endLine |-> StartLine(text, i) + Height(text[i]) - 1]]

\* getFunctionSignature for a function without parameters and results
getFunctionSignature(name) == <<"func", name, "()">>

\* the Range of a symbol: ls.fileSet is the FileSet parseDocument parsed with
SymbolRange(n) ==
    [Start |-> [Line |-> n.line - 1, Character |-> PosColumn(n) - 1],
     End |-> [Line |-> n.endLine - 1, Character |-> EndColumn(n) - 1]]

RECURSIVE extractFrom(_, _)
extractFrom(file, i) ==
    IF i > Len(file) THEN <<>>
    ELSE LET n == file[i]
             rest == extractFrom(file, i + 1)
         IN  IF n.kind = "func"
             THEN <<[Name |-> n.name, Kind |-> "function", Line |-> n.line - 1,
                     Range |-> SymbolRange(n),
                     Signature |-> getFunctionSignature(n.name)]>> \o rest
             ELSE IF n.kind = "type"
             THEN <<[Name |-> n.name, Kind |-> "type", Line |-> n.line - 1,
                     Range |-> SymbolRange(n),
                     Signature |-> <<>>]>> \o rest
             ELSE rest

\* extractSymbols: one SymbolInfo per FuncDecl and TypeSpec, in source order
extractSymbols(file) == extractFrom(file, 1)

Document(uri, text, symbols, version) ==
    [URI |-> uri, Text |-> text, Symbols |-> symbols, Version |-> version]

\* The composite literal and the map assignment of parseDocument on a map
\* docs: the status of the request and the map afterwards
assignDocument(docs, uri, text) ==
    IF uri \in DOMAIN docs
    THEN [status |-> "ok",
          docs |-> [u \in DOMAIN docs |->
                      IF u = uri
                      THEN Document(uri, text, extractSymbols(ParseFile(text)), docs[uri].Version + 1)
                      ELSE docs[u]]]
    ELSE [status |-> "panic", docs |-> docs]

(* --------------------------- the RWMutex ------------------------------ *)
MuFree == mu.writer = None /\ mu.readers = {}
Lock(r) == [mu EXCEPT !.writer = r]
\* a request waits for the write lock
WriterWaiting == \E q \in Reqs : pc[q] \in {"lock", "closeLock"}
\* Unlock hands the lock to the readers that blocked in RLock meanwhile
Unlock == [mu EXCEPT !.writer = None, !.readers = {q \in Reqs : pc[q] = "rlock"}]
RLock(r) == [mu EXCEPT !.readers = @ \cup {r}]
RUnlock(r) == [mu EXCEPT !.readers = @ \ {r}]

(* ---------------------------- responses ------------------------------- *)
NoResult == [status |-> "none", body |-> <<>>]
Response(status, body) == [status |-> status, body |-> body]
NoCall == [op |-> "none", uri |-> "", text |-> <<>>, version |-> 0, decoded |-> FALSE]
Available(r) == pc[r] = "idle"

Finish(r, status, body) ==
    /\ pc' = [pc EXCEPT ![r] = "done"]
    /\ result' = [result EXCEPT ![r] = Response(status, body)]

Goto(r, label) ==
    /\ pc' = [pc EXCEPT ![r] = label]
    /\ result' = [result EXCEPT ![r] = NoResult]

(* ------------------------- the AST analyzer --------------------------- *)
VARIABLES
    complexity,   \* ASTAnalyzer.complexity: function name -> complexity
    hashWriting,  \* the request inside an assignment to the complexity map
    crashed,      \* the runtime ended the process with a fatal error
    acall,        \* per request: the endpoint and the decoded source
    apc,          \* per request: position inside the analysis handler
    aidx,         \* per request: the declaration analyzeFunctions is at
    aresult       \* per request: the response written (status, body)

avars == <<complexity, hashWriting, crashed, acall, apc, aidx, aresult>>

NoSource == [op |-> "none", content |-> <<>>]

\* NewASTAnalyzer, and no analysis request in flight
AnalyzerInit ==
    /\ complexity = <<>>
    /\ hashWriting = None
    /\ crashed = FALSE
    /\ acall = [r \in Reqs |-> NoSource]
    /\ apc = [r \in Reqs |-> "idle"]
    /\ aidx = [r \in Reqs |-> 0]
    /\ aresult = [r \in Reqs |-> NoResult]

(* --------------------- the specification processor ------------------- *)
\* The files handed to ProcessFile: base name, extension, whether the
\* content parses as a JSON or YAML object, and the keys of that object
OpenAPIFile == [base |-> "openapi", ext |-> ".json", parses |-> TRUE,
                keys |-> {"openapi", "info", "paths"}]
BareOpenAPIFile == [base |-> "bare", ext |-> ".JSON", parses |-> TRUE, keys |-> {"openapi"}]
PostmanFile == [base |-> "collection", ext |-> ".json", parses |-> TRUE,
                keys |-> {"info", "item"}]
YamlFile == [base |-> "api", ext |-> ".yaml", parses |-> TRUE, keys |-> {"openapi", "info"}]
BrokenFile == [base |-> "broken", ext |-> ".json", parses |-> FALSE, keys |-> {}]
OtherJSONFile == [base |-> "package", ext |-> ".json", parses |-> TRUE, keys |-> {"name"}]
TextFile == [base |-> "notes", ext |-> ".txt", parses |-> FALSE, keys |-> {}]
SpecFiles == {OpenAPIFile, BareOpenAPIFile, PostmanFile, YamlFile, BrokenFile,
              OtherJSONFile, TextFile}
NoFile == [base |-> "", ext |-> "", parses |-> FALSE, keys |-> {}]

\* The directories handed to ProcessDirectory: whether ReadDir succeeds,
\* and the entries it lists (a subdirectory among them)
SubDir == [base |-> "sub", ext |-> "", parses |-> FALSE, keys |-> {}, isDir |-> TRUE]
SpecsDir == [readable |-> TRUE, entries |-> <<PostmanFile, OpenAPIFile, YamlFile>>]
MixedDir == [readable |-> TRUE, entries |-> <<BrokenFile, SubDir, TextFile, BareOpenAPIFile>>]
EmptyDir == [readable |-> TRUE, entries |-> <<>>]
MissingDir == [readable |-> FALSE, entries |-> <<>>]
Directories == {SpecsDir, MixedDir, EmptyDir, MissingDir}

VARIABLES
    contexts,   \* the store of the MCP server: context id -> metadata type
    ppc,        \* position of the processor inside ProcessFile
    pfile,      \* the file ProcessFile is called with
    perr,       \* the error ProcessFile returns ("nil": none)
    pcreated,   \* the contexts the server created during this call
    pdpc,       \* position of the processor inside ProcessDirectory
    pdir,       \* the directory ProcessDirectory is called with
    pqueue,     \* the entries the loop of ProcessDirectory has not reached
    pattempted, \* the ProcessFile calls of the loop that returned, with their error
    pderr       \* the error ProcessDirectory returns ("nil": none)

dvars == <<pdpc, pdir, pqueue, pattempted, pderr>>
pvars == <<contexts, ppc, pfile, perr, pcreated, pdpc, pdir, pqueue, pattempted, pderr>>

\* NewProcessor against a server with an empty store
ProcessorInit ==
    /\ contexts = <<>>
    /\ ppc = "idle"
    /\ pfile = NoFile
    /\ perr = "nil"
    /\ pcreated = <<>>
    /\ pdpc = "idle"
    /\ pdir = EmptyDir
    /\ pqueue = <<>>
    /\ pattempted = <<>>
    /\ pderr = "nil"

(* -------------------------- the curl processor ------------------------ *)
\* An argument of a curl command as it is typed: its text and the quote
\* character around it ("" for none)
Arg(s) == [s |-> s, q |-> ""]
Single(s) == [s |-> s, q |-> "'"]
Double(s) == [s |-> s, q |-> "\""]

\* The commands handed to the parser, as their arguments
CmdGet == <<Arg("https://h/u")>>
CmdPost == <<Arg("-X"), Arg("POST"), Arg("-H"), Double("A: b"),
             Arg("-d"), Single("{\"n\":\"t\"}"), Arg("https://h/u")>>
CmdAuth == <<Arg("-u"), Arg("me:pw"), Arg("http://h/s")>>
CmdGetData == <<Arg("-X"), Arg("GET"), Arg("--data"), Single("q=1"), Arg("https://h/f")>>
CmdDataPut == <<Arg("--data-raw"), Arg("x"), Arg("--request"), Arg("PUT"), Arg("https://h/i")>>
CmdEmptyData == <<Arg("-d"), Single(""), Arg("https://h/p")>>
CmdNoURL == <<Arg("--header"), Double("B: c")>>
CmdURLAsValue == <<Arg("--user"), Arg("http://h/k")>>
CmdLastOption == <<Arg("https://h/u"), Arg("-X")>>
CmdQuery == <<Double("https://h/s?q=t&p=1")>>
CurlCommands == {CmdGet, CmdPost, CmdAuth, CmdGetData, CmdDataPut, CmdEmptyData,
                 CmdNoURL, CmdURLAsValue, CmdLastOption, CmdQuery}

\* the text of a command: "curl" and the arguments, each inside its quotes
RECURSIVE RenderArgs(_, _)
RenderArgs(args, i) ==
    IF i > Len(args) THEN ""
    ELSE " " \o args[i].q \o args[i].s \o args[i].q \o RenderArgs(args, i + 1)
Render(args) == "curl" \o RenderArgs(args, 1)

\* The contents handed to ParseCurlCollection, as their lines
RECURSIVE JoinLines(_, _)
JoinLines(lines, i) ==
    IF i > Len(lines) THEN ""
    ELSE lines[i] \o (IF i < Len(lines) THEN "\n" ELSE "") \o JoinLines(lines, i + 1)

ContentTwo == <<"", Render(CmdGet), "", Render(CmdAuth), "">>
ContentContinued == <<"curl -X POST \\", "     -d 'a' \\", "     https://h/u", "",
                      Render(CmdGet)>>
ContentMixed == <<"# users", Render(CmdNoURL), Render(CmdGet)>>
ContentInvalid == <<"invalid command", "more invalid">>
ContentEmpty == <<>>
ContentDangling == <<Render(CmdAuth), "curl https://h/u \\">>
CurlContents == {ContentTwo, ContentContinued, ContentMixed, ContentInvalid,
                 ContentEmpty, ContentDangling}

\* the names of collections, and the files handed to ProcessCurlFile
CollectionNames == {"Test Commands", "api"}
CurlFiles == {[path |-> "commands.txt", readable |-> TRUE, lines |-> ContentTwo],
              [path |-> "/tmp/api.txt", readable |-> TRUE, lines |-> ContentMixed],
              [path |-> "nonexistent.txt", readable |-> FALSE, lines |-> <<>>]}

VARIABLES
    cpc,          \* where the curl processor is: "idle", "create", "done"
    ccall,        \* the call in progress
    ccommand,     \* what ParseCurlCommand returned
    ccollection,  \* what ParseCurlCollection returned
    cerr          \* the error the call returns

cvars == <<cpc, ccall, ccommand, ccollection, cerr>>

NoCurlCall == [op |-> "none"]
NoCommand == [err |-> "none"]
NoCollection == [err |-> "none"]

CurlInit ==
    /\ cpc = "idle"
    /\ ccall = NoCurlCall
    /\ ccommand = NoCommand
    /\ ccollection = NoCollection
    /\ cerr = "nil"

(* ---------------------------- MemoryStore ----------------------------- *)
\* The ids a caller uses, the last one outside validIDPattern
StoreIDs == {"a", "b"}
BadID == "bad id"
\* The map objects a caller nests inside Metadata; each holds one value
Cells == {1, 2}
CellValues == {0, 1}
\* A value of Metadata: a string, or a reference to a nested map object
StringValue(v) == [kind |-> "string", v |-> v, ref |-> 0]
MapValue(cell) == [kind |-> "map", v |-> "", ref |-> cell]
\* The values a caller assigns to a key of its Metadata
MetadataValues == {StringValue("y"), MapValue(2)}
\* A Metadata map: nil, or its entries
NilMetadata == [nil |-> TRUE, entries |-> <<>>]
Entries(entries) == [nil |-> FALSE, entries |-> entries]
\* The Metadata of the contexts a caller builds
CallerMetadata ==
    {NilMetadata, Entries("type" :> StringValue("x")),
     Entries("type" :> StringValue("x") @@ "nested" :> MapValue(1))}
NoContext == [ID |-> "", Metadata |-> NilMetadata]

VARIABLES
    stored,   \* MemoryStore.contexts: id -> the context the store holds
    heap,     \* the nested map objects: cell -> value
    mine,     \* the context the caller holds: the one it passed or got back
    slist,    \* what List returned
    sop,      \* the last operation and the id it was about
    serr      \* the error it returned

svars == <<stored, heap, mine, slist, sop, serr>>

StoreInit ==
    /\ stored = <<>>
    /\ heap = [c \in Cells |-> 0]
    /\ mine = NoContext
    /\ slist = {}
    /\ sop = [name |-> "none", id |-> ""]
    /\ serr = "nil"

(* ---------------------------- TaskManager ----------------------------- *)
TaskIDs == {"build", "serve"}
\* The commands of tasks: one that runs, and the empty command Execute refuses
TaskCommands == {"go run .", ""}
\* The tasks handed to StartTask
Tasks ==
    {[ID |-> id, Command |-> command, AutoRestart |-> restart, Status |-> "starting"] :
        id \in TaskIDs, command \in TaskCommands, restart \in BOOLEAN}

VARIABLES
    tasks,     \* TaskManager.tasks: id -> the task
    cancel,    \* the ids TaskManager.cancel has a CancelFunc for
    ctxDone,   \* the ids whose context is cancelled
    gpc,       \* id -> where the goroutine of the task is
    tstopped,  \* the ids for which StopTask has returned nil
    tlast      \* the last step: its name, the id and the error it returned

tvars == <<tasks, cancel, ctxDone, gpc, tstopped, tlast>>

TaskInit ==
    /\ tasks = <<>>
    /\ cancel = {}
    /\ ctxDone = {}
    /\ gpc = [id \in TaskIDs |-> "none"]
    /\ tstopped = {}
    /\ tlast = [name |-> "none", id |-> "", err |-> "nil"]

(* ----------------------------- SSHManager ----------------------------- *)
SSHIDs == {"dev", "prod"}
\* The SSHClient objects NewSSHClient can create
MaxClients == 2
ClientObjects == 1..MaxClients
NoClient == 0

VARIABLES
    clients,     \* SSHManager.clients: id -> the SSHClient object
    created,     \* the number of SSHClient objects created so far
    connected,   \* the objects whose connected flag is set
    openConns,   \* the objects that have an open SSH connection
    hDisconnected, \* the objects a disconnect request has succeeded for
    spc,         \* request -> where its handler is
    scall,       \* request -> the handler, the id and the object it works on
    sresult      \* request -> the status it answers

hvars == <<clients, created, connected, openConns, hDisconnected, spc, scall, sresult>>

NoSSHCall == [op |-> "none", id |-> "", client |-> NoClient]

SSHInit ==
    /\ clients = <<>>
    /\ created = 0
    /\ connected = {}
    /\ openConns = {}
    /\ hDisconnected = {}
    /\ spc = [r \in Reqs |-> "idle"]
    /\ scall = [r \in Reqs |-> NoSSHCall]
    /\ sresult = [r \in Reqs |-> 0]

(* ------------------------------ Init ---------------------------------- *)
Init ==
    /\ AnalyzerInit
    /\ ProcessorInit
    /\ CurlInit
    /\ StoreInit
    /\ TaskInit
    /\ SSHInit
    /\ documents = <<>>
    /\ mu = [writer |-> None, readers |-> {}]
    /\ call = [r \in Reqs |-> NoCall]
    /\ pc = [r \in Reqs |-> "idle"]
    /\ result = [r \in Reqs |-> NoResult]
    /\ hOpened = {}
    /\ hClosed = {}

(* ----------------------------- handlers ------------------------------- *)
\* entry of a handler that decodes a TextDocumentItem from the body
DecodeItem(r, op, decoded, uri, text, version) ==
    /\ Available(r)
    /\ call' = [call EXCEPT ![r] =
                  IF decoded
                  THEN [op |-> op, uri |-> uri, text |-> text, version |-> version, decoded |-> TRUE]
                  ELSE [NoCall EXCEPT !.op = op]]
    /\ IF decoded THEN Goto(r, IF op = "close" THEN "closeLock" ELSE "parse")
                  ELSE Finish(r, "badRequest", <<>>)
    /\ UNCHANGED <<documents, mu, hOpened, hClosed>>

handleOpenDocument(r) ==
    \E decoded \in BOOLEAN, uri \in DocURIs, item \in Items :
        DecodeItem(r, "open", decoded, uri, item.text, item.version)

handleChangeDocument(r) ==
    \E decoded \in BOOLEAN, uri \in DocURIs, item \in Items :
        DecodeItem(r, "change", decoded, uri, item.text, item.version)

\* parseDocument that stores the document although the parser reported an error
parseDocumentParseIgnoreErr(r) ==
    /\ pc[r] = "parse"
    /\ Goto(r, "lock")
    /\ UNCHANGED <<documents, mu, call, hOpened, hClosed>>

\* parseDocument that takes ls.mu before it parses
parseDocumentParseLocked(r) ==
    /\ pc[r] = "parse"
    /\ MuFree
    /\ IF HasSyntaxError(call[r].text)
       THEN Finish(r, "internalError", <<>>) /\ mu' = mu
       ELSE Goto(r, "commit") /\ mu' = Lock(r)
    /\ UNCHANGED <<documents, call, hOpened, hClosed>>

\* parseDocument up to the lock: parse and extract, neither under the lock
parseDocumentParse(r) ==
    /\ pc[r] = "parse"
    /\ IF HasSyntaxError(call[r].text)
       THEN Finish(r, "internalError", <<>>)
       ELSE Goto(r, "lock")
    /\ UNCHANGED <<documents, mu, call, hOpened, hClosed>>

\* ls.mu.Lock()
parseDocumentLock(r) ==
    /\ pc[r] = "lock"
    /\ MuFree
    /\ mu' = Lock(r)
    /\ Goto(r, "commit")
    /\ UNCHANGED <<documents, call, hOpened, hClosed>>

\* a commit that creates the entry of an absent uri without its symbols
parseDocumentCommitPartial(r) ==
    LET uri == call[r].uri
        text == call[r].text
    IN  /\ pc[r] = "commit"
        /\ mu.writer = r
        /\ documents' = [u \in DOMAIN documents \cup {uri} |->
                           IF u = uri
                           THEN Document(uri, text, <<>>,
                                         IF uri \in DOMAIN documents
                                         THEN documents[uri].Version + 1 ELSE 1)
                           ELSE documents[u]]
        /\ Finish(r, "ok", <<>>)
        /\ mu' = Unlock
        /\ hOpened' = IF call[r].op = "open" THEN hOpened \cup {uri} ELSE hOpened
        /\ hClosed' = IF call[r].op = "open" THEN hClosed \ {uri} ELSE hClosed
        /\ UNCHANGED call

\* a commit whose Unlock is not deferred: the panic leaves ls.mu locked
parseDocumentCommitNoDefer(r) ==
    LET uri == call[r].uri
        text == call[r].text
    IN  /\ pc[r] = "commit"
        /\ mu.writer = r
        /\ IF uri \in DOMAIN documents
           THEN /\ documents' = [u \in DOMAIN documents |->
                                   IF u = uri
                                   THEN Document(uri, text, extractSymbols(ParseFile(text)),
                                                 documents[uri].Version + 1)
                                   ELSE documents[u]]
                /\ Finish(r, "ok", <<>>)
                /\ mu' = Unlock
           ELSE /\ documents' = documents
                /\ Finish(r, "panic", <<>>)
                /\ mu' = mu
        /\ hOpened' = IF call[r].op = "open" THEN hOpened \cup {uri} ELSE hOpened
        /\ hClosed' = IF call[r].op = "open" THEN hClosed \ {uri} ELSE hClosed
        /\ UNCHANGED call

\* the assignment to ls.documents[uri], the deferred Unlock and the response.
\* ls.documents[uri].Version dereferences the entry of uri: a nil pointer
\* when uri has no entry, and the panic leaves the map as it was.
parseDocumentCommit(r) ==
    LET uri == call[r].uri
        text == call[r].text
    IN  /\ pc[r] = "commit"
        /\ mu.writer = r
        /\ IF uri \in DOMAIN documents
           THEN /\ documents' = [u \in DOMAIN documents |->
                                   IF u = uri
                                   THEN Document(uri, text, extractSymbols(ParseFile(text)),
                                                 documents[uri].Version + 1)
                                   ELSE documents[u]]
                /\ Finish(r, "ok", <<>>)
           ELSE /\ documents' = documents
                /\ Finish(r, "panic", <<>>)
        /\ mu' = Unlock
        /\ hOpened' = IF call[r].op = "open" THEN hOpened \cup {uri} ELSE hOpened
        /\ hClosed' = IF call[r].op = "open" THEN hClosed \ {uri} ELSE hClosed
        /\ UNCHANGED call

handleCloseDocument(r) ==
    \E decoded \in BOOLEAN, uri \in DocURIs :
        DecodeItem(r, "close", decoded, uri, <<>>, 0)

closeLock(r) ==
    /\ pc[r] = "closeLock"
    /\ MuFree
    /\ mu' = Lock(r)
    /\ Goto(r, "closeDelete")
    /\ UNCHANGED <<documents, call, hOpened, hClosed>>

\* a close that keeps an emptied record of the document instead of deleting it
closeDeleteTombstone(r) ==
    LET uri == call[r].uri
    IN  /\ pc[r] = "closeDelete"
        /\ mu.writer = r
        /\ documents' = [u \in DOMAIN documents \cup {uri} |->
                           IF u = uri THEN Document(uri, <<>>, <<>>, 0) ELSE documents[u]]
        /\ mu' = Unlock
        /\ Finish(r, "ok", <<>>)
        /\ hOpened' = hOpened \ {uri}
        /\ hClosed' = IF uri \in hOpened THEN hClosed \cup {uri} ELSE hClosed
        /\ UNCHANGED call

\* delete(ls.documents, doc.URI), Unlock, and the "closed" response
closeDelete(r) ==
    LET uri == call[r].uri
    IN  /\ pc[r] = "closeDelete"
        /\ mu.writer = r
        /\ documents' = [u \in DOMAIN documents \ {uri} |-> documents[u]]
        /\ mu' = Unlock
        /\ Finish(r, "ok", <<>>)
        /\ hOpened' = hOpened \ {uri}
        /\ hClosed' = IF uri \in hOpened THEN hClosed \cup {uri} ELSE hClosed
        /\ UNCHANGED call

\* entry of the symbols query: the uri parameter must not be empty
handleDocumentSymbols(r) ==
    \E uri \in URIs :
        /\ Available(r)
        /\ call' = [call EXCEPT ![r] = [NoCall EXCEPT !.op = "symbols", !.uri = uri, !.decoded = TRUE]]
        /\ IF uri = "" THEN Finish(r, "badRequest", <<>>) ELSE Goto(r, "rlock")
        /\ UNCHANGED <<documents, mu, hOpened, hClosed>>

\* a read lock that is granted while a writer holds the lock
symbolsRLockNoWait(r) ==
    /\ pc[r] = "rlock"
    /\ mu' = RLock(r)
    /\ Goto(r, "read")
    /\ UNCHANGED <<documents, call, hOpened, hClosed>>

\* ls.mu.RLock(): granted when no writer holds the lock or waits for it, and
\* to a reader the last Unlock handed the lock to
symbolsRLock(r) ==
    /\ pc[r] = "rlock"
    /\ r \in mu.readers \/ (mu.writer = None /\ ~WriterWaiting)
    /\ mu' = RLock(r)
    /\ Goto(r, "read")
    /\ UNCHANGED <<documents, call, hOpened, hClosed>>

\* a query that answers an unknown uri with an empty symbol list
symbolsReadEmptyList(r) ==
    LET uri == call[r].uri
    IN  /\ pc[r] = "read"
        /\ r \in mu.readers
        /\ mu' = RUnlock(r)
        /\ Finish(r, "ok", IF uri \in DOMAIN documents THEN documents[uri].Symbols ELSE <<>>)
        /\ UNCHANGED <<documents, call, hOpened, hClosed>>

\* a query that creates an empty entry for an unknown uri
symbolsReadCreating(r) ==
    LET uri == call[r].uri
    IN  /\ pc[r] = "read"
        /\ r \in mu.readers
        /\ mu' = RUnlock(r)
        /\ IF uri \in DOMAIN documents
           THEN Finish(r, "ok", documents[uri].Symbols) /\ documents' = documents
           ELSE /\ Finish(r, "notFound", <<>>)
                /\ documents' = [u \in DOMAIN documents \cup {uri} |->
                                   IF u = uri THEN Document(uri, <<>>, <<>>, 0) ELSE documents[u]]
        /\ UNCHANGED <<call, hOpened, hClosed>>

\* the map lookup, RUnlock and the response.  The Document read is never
\* modified after it was stored, so answering after RUnlock reads the same.
symbolsRead(r) ==
    LET uri == call[r].uri
    IN  /\ pc[r] = "read"
        /\ r \in mu.readers
        /\ mu' = RUnlock(r)
        /\ IF uri \in DOMAIN documents
           THEN Finish(r, "ok", documents[uri].Symbols)
           ELSE Finish(r, "notFound", <<>>)
        /\ UNCHANGED <<documents, call, hOpened, hClosed>>

\* a completion handler that answers an empty list instead of "not implemented"
handleCompletionEmptyOk(r) ==
    /\ Available(r)
    /\ call' = [call EXCEPT ![r] = [NoCall EXCEPT !.op = "completion", !.decoded = TRUE]]
    /\ Finish(r, "ok", <<>>)
    /\ UNCHANGED <<documents, mu, hOpened, hClosed>>

\* completion, definition and hover read nothing of the request and answer
\* 501 "not implemented"
handleCompletion(r) ==
    /\ Available(r)
    /\ call' = [call EXCEPT ![r] = [NoCall EXCEPT !.op = "completion", !.decoded = TRUE]]
    /\ Finish(r, "notImplemented", <<>>)
    /\ UNCHANGED <<documents, mu, hOpened, hClosed>>

handleDefinition(r) ==
    /\ Available(r)
    /\ call' = [call EXCEPT ![r] = [NoCall EXCEPT !.op = "definition", !.decoded = TRUE]]
    /\ Finish(r, "notImplemented", <<>>)
    /\ UNCHANGED <<documents, mu, hOpened, hClosed>>

handleHover(r) ==
    /\ Available(r)
    /\ call' = [call EXCEPT ![r] = [NoCall EXCEPT !.op = "hover", !.decoded = TRUE]]
    /\ Finish(r, "notImplemented", <<>>)
    /\ UNCHANGED <<documents, mu, hOpened, hClosed>>

\* the handler has returned and the goroutine ends
Return(r) ==
    /\ pc[r] = "done"
    /\ pc' = [pc EXCEPT ![r] = "idle"]
    /\ call' = [call EXCEPT ![r] = NoCall]
    /\ result' = [result EXCEPT ![r] = NoResult]
    /\ UNCHANGED <<documents, mu, hOpened, hClosed>>

(* --------------------- analysis: pure functions ----------------------- *)
\* a.fileSet.Position(p).Line for a file parsed with the FileSet fset: the
\* handlers parse with a FileSet of their own, the analyzer's FileSet does
\* not know the file and answers the zero Position
AnalyzerFileSet == "analyzer"
HandlerFileSet == "handler"
PositionLine(fset, line) == IF fset = AnalyzerFileSet THEN line ELSE 0

PositionColumn(fset, column) == IF fset = AnalyzerFileSet THEN column ELSE 0

\* a range with start and end exchanged
NodeRangeSwapped(fset, n) ==
    [Start |-> [Line |-> PositionLine(fset, n.endLine) - 1,
                Character |-> PositionColumn(fset, EndColumn(n)) - 1],
     End |-> [Line |-> PositionLine(fset, n.line) - 1,
              Character |-> PositionColumn(fset, PosColumn(n)) - 1]]

\* Range{Start: {pos.Line - 1, pos.Column - 1}, End: {end.Line - 1, end.Column - 1}}
NodeRange(fset, n) ==
    [Start |-> [Line |-> PositionLine(fset, n.line) - 1,
                Character |-> PositionColumn(fset, PosColumn(n)) - 1],
     End |-> [Line |-> PositionLine(fset, n.endLine) - 1,
              Character |-> PositionColumn(fset, EndColumn(n)) - 1]]

\* Range{Start: {pos.Line - 1, pos.Column - 1},
\*       End: {pos.Line - 1, pos.Column - 1 + len(name)}}
NameRange(fset, line, column, name) ==
    [Start |-> [Line |-> PositionLine(fset, line) - 1,
                Character |-> PositionColumn(fset, column) - 1],
     End |-> [Line |-> PositionLine(fset, line) - 1,
              Character |-> PositionColumn(fset, column) - 1 + Len(name)]]

\* a complexity that starts at 0 instead of 1
calculateFunctionComplexityNoBase(fn) ==
    Cardinality({j \in 1..Len(Attr(fn, "body", <<>>)) :
                   Attr(fn, "body", <<>>)[j].node \in
                     {"IfStmt", "ForStmt", "RangeStmt", "CaseClause", "CommClause", "BinaryExpr"}})

\* calculateFunctionComplexity: 1 plus the nodes of the listed types
calculateFunctionComplexity(fn) ==
    1 + Cardinality({j \in 1..Len(Attr(fn, "body", <<>>)) :
                       Attr(fn, "body", <<>>)[j].node \in
                         {"IfStmt", "ForStmt", "RangeStmt", "CaseClause", "CommClause", "BinaryExpr"}})

RECURSIVE selectDecls(_, _, _)
selectDecls(file, kind, i) ==
    IF i > Len(file) THEN <<>>
    ELSE IF file[i].kind = kind THEN <<file[i]>> \o selectDecls(file, kind, i + 1)
    ELSE selectDecls(file, kind, i + 1)

\* the FuncDecl, TypeSpec and ValueSpec nodes ast.Inspect meets, in order
FuncDecls(file) == selectDecls(file, "func", 1)
TypeSpecs(file) == selectDecls(file, "type", 1)
ValueSpecs(file) == selectDecls(file, "var", 1)

\* analyzeFunctions: the FunctionInfo list
analyzeFunctions(file, fset) ==
    [i \in 1..Len(FuncDecls(file)) |->
        LET fn == FuncDecls(file)[i]
        IN  [Name |-> fn.name,
             Signature |-> getFunctionSignature(fn.name),
             Doc |-> Attr(fn, "doc", 0),
             Line |-> PositionLine(fset, fn.line) - 1,
             Range |-> NodeRange(fset, fn),
             Complexity |-> calculateFunctionComplexity(fn)]]

\* analyzeTypes: the TypeInfo list
analyzeTypes(file, fset) ==
    [i \in 1..Len(TypeSpecs(file)) |->
        LET t == TypeSpecs(file)[i]
        IN  [Name |-> t.name,
             Kind |-> Attr(t, "typ", "other"),
             Line |-> PositionLine(fset, t.line) - 1,
             Range |-> NodeRange(fset, t)]]

\* analyzeVariables: the VariableInfo list
analyzeVariables(file, fset) ==
    [i \in 1..Len(ValueSpecs(file)) |->
        LET v == ValueSpecs(file)[i]
        IN  [Name |-> v.name,
             Line |-> PositionLine(fset, v.line) - 1,
             Range |-> NodeRange(fset, v),
             Constant |-> Attr(v, "value", FALSE)]]

ImportSpecs(file) == selectDecls(file, "import", 1)

\* a.typeInfo.Uses and a.typeInfo.Defs: the identifiers the type checker
\* resolved. NewASTAnalyzer makes the maps and nothing fills them.
typeInfoUses == {}
typeInfoDefs == {}

\* the nodes of the bodies of all functions of file, in traversal order
RECURSIVE BodyNodes(_, _)
BodyNodes(file, i) ==
    IF i > Len(file) THEN <<>>
    ELSE Attr(file[i], "body", <<>>) \o BodyNodes(file, i + 1)

\* isImportUsed: some SelectorExpr pkg.Name whose pkg the type information
\* resolves to the package imported from importPath
isImportUsed(file, importPath) ==
    \E j \in 1..Len(BodyNodes(file, 1)) :
        LET n == BodyNodes(file, 1)[j]
        IN  /\ n.node = "SelectorExpr"
            /\ n.x \in typeInfoUses
            /\ n.path = importPath

\* analyzeImports: the ImportInfo list
analyzeImports(file) ==
    [i \in 1..Len(ImportSpecs(file)) |->
        LET imp == ImportSpecs(file)[i]
        IN  [Path |-> imp.path, Name |-> imp.name, Used |-> isImportUsed(file, imp.path)]]

\* the identifiers of file in traversal order: the names the declarations
\* bind, and the package identifiers of the qualified accesses
RECURSIVE Idents(_, _)
Idents(file, i) ==
    IF i > Len(file) THEN <<>>
    ELSE LET n == file[i]
             body == Attr(n, "body", <<>>)
             inBody == [j \in 1..Len(body) |->
                          [Name |-> Attr(body[j], "x", ""), line |-> n.line + j,
                           column |-> 2, binds |-> FALSE]]
             used == SelectSeq(inBody, LAMBDA id : id.Name # "")
         IN  (IF n.kind \in {"func", "type", "var"}
              THEN <<[Name |-> n.name, line |-> n.line, column |-> NameColumn(n), binds |-> TRUE]>>
              ELSE <<>>) \o used \o Idents(file, i + 1)

\* analyzeReferences: one ReferenceInfo per name with an entry in
\* typeInfo.Defs (a later definition of the name replaces the earlier one),
\* with the positions of the identifiers typeInfo.Uses resolves to it. The
\* map is copied to the slice in the iteration order of the map: a set.
analyzeReferences(file, fset) ==
    LET ids == Idents(file, 1)
        defs == {j \in 1..Len(ids) : ids[j].Name \in typeInfoDefs}
        last(name) == CHOOSE j \in defs :
                         ids[j].Name = name /\ \A k \in defs : ids[k].Name = name => k <= j
        uses(name) == SelectSeq(ids, LAMBDA id : id.Name \in typeInfoUses /\ id.Name = name)
    IN  {[Name |-> ids[j].Name,
          Range |-> NameRange(fset, ids[j].line, ids[j].column, ids[j].Name),
          UsedAt |-> [k \in 1..Len(uses(ids[j].Name)) |->
                        NameRange(fset, uses(ids[j].Name)[k].line,
                                  uses(ids[j].Name)[k].column, ids[j].Name)]]
         : j \in {d \in defs : d = last(ids[d].Name)}}

UpperCase == {"A", "B", "C", "D", "E", "F", "G", "H", "I", "J", "K", "L", "M",
              "N", "O", "P", "Q", "R", "S", "T", "U", "V", "W", "X", "Y", "Z"}
\* ast.IsExported
IsExported(name) == Len(name) >= 1 /\ SubSeq(name, 1, 1) \in UpperCase

\* the first check of runDiagnostics: the imports isImportUsed denies
UnusedImport(file, fset) ==
    LET unused == SelectSeq(ImportSpecs(file), LAMBDA imp : ~isImportUsed(file, imp.path))
    IN  [i \in 1..Len(unused) |->
            [Severity |-> "warning", Code |-> "unused-import", Source |-> "go-analyzer",
             Message |-> <<"Unused import", unused[i].path>>,
             Range |-> NameRange(fset, unused[i].line, PosColumn(unused[i]), unused[i].path)]]

\* the second check: the exported FuncDecls without Doc
MissingDocumentation(file, fset) ==
    LET bare == SelectSeq(FuncDecls(file),
                          LAMBDA fn : IsExported(fn.name) /\ Attr(fn, "doc", 0) = 0)
    IN  [i \in 1..Len(bare) |->
            [Severity |-> "info", Code |-> "missing-doc", Source |-> "go-analyzer",
             Message |-> <<"Exported function lacks documentation", bare[i].name>>,
             Range |-> NameRange(fset, bare[i].line, NameColumn(bare[i]), bare[i].name)]]

\* diagnostics with the documentation check first
runDiagnosticsDocFirst(file, fset) == MissingDocumentation(file, fset) \o UnusedImport(file, fset)

\* runDiagnostics: the two checks one after the other
runDiagnostics(file, fset) == UnusedImport(file, fset) \o MissingDocumentation(file, fset)

RECURSIVE SumSeq(_, _)
SumSeq(seq, i) == IF i > Len(seq) THEN 0 ELSE seq[i] + SumSeq(seq, i + 1)

RECURSIVE SumMap(_, _)
SumMap(m, keys) ==
    IF keys = {} THEN 0
    ELSE LET k == CHOOSE x \in keys : TRUE
         IN  m[k] + SumMap(m, keys \ {k})

HasTestPrefix(name) == Len(name) >= 4 /\ SubSeq(name, 1, 4) = "Test"

\* calculateMetrics: the counters of one walk, and the sum over the whole
\* complexity map of the analyzer
calculateMetrics(file, fset, cmap) ==
    [LinesOfCode |-> PositionLine(fset, IF file = <<>> THEN 1 ELSE file[Len(file)].endLine),
     CommentLines |-> SumSeq([i \in 1..Len(file) |-> Attr(file[i], "doc", 0)], 1),
     FunctionCount |-> Len(FuncDecls(file)),
     ComplexityScore |-> SumMap(cmap, DOMAIN cmap),
     InterfaceCount |-> Cardinality({i \in 1..Len(file) :
                          file[i].kind = "type" /\ Attr(file[i], "typ", "other") = "interface"}),
     StructCount |-> Cardinality({i \in 1..Len(file) :
                          file[i].kind = "type" /\ Attr(file[i], "typ", "other") = "struct"}),
     TestCount |-> Cardinality({i \in 1..Len(file) :
                          file[i].kind = "func" /\ HasTestPrefix(file[i].name)})]

\* the AnalysisResult AnalyzeFile assembles once the complexity map is cmap
AnalysisResult(file, fset, cmap) ==
    [Imports |-> analyzeImports(file),
     Functions |-> analyzeFunctions(file, fset),
     Types |-> analyzeTypes(file, fset),
     Variables |-> analyzeVariables(file, fset),
     References |-> analyzeReferences(file, fset),
     Metrics |-> calculateMetrics(file, fset, cmap),
     Diagnostics |-> runDiagnostics(file, fset)]

\* a.complexity[name] = c
MapAssign(m, name, c) == [k \in DOMAIN m \cup {name} |-> IF k = name THEN c ELSE m[k]]

\* the first FuncDecl at or after declaration i, Len(file) + 1 if none
RECURSIVE NextFuncDecl(_, _)
NextFuncDecl(file, i) ==
    IF i > Len(file) THEN Len(file) + 1
    ELSE IF file[i].kind = "func" THEN i
    ELSE NextFuncDecl(file, i + 1)

(* ------------------------ analysis: handlers -------------------------- *)
AFinish(r, status, body) ==
    /\ apc' = [apc EXCEPT ![r] = "done"]
    /\ aresult' = [aresult EXCEPT ![r] = Response(status, body)]

AGoto(r, label) ==
    /\ apc' = [apc EXCEPT ![r] = label]
    /\ aresult' = [aresult EXCEPT ![r] = NoResult]

\* entry of handleFileAnalysis and handleMetricsAnalysis: decode, parse with
\* a fresh FileSet, and enter AnalyzeFile
DecodeSource(r, op, decoded, content) ==
    /\ ~crashed
    /\ apc[r] = "idle"
    /\ acall' = [acall EXCEPT ![r] = [op |-> op, content |-> IF decoded THEN content ELSE <<>>]]
    /\ IF ~decoded \/ HasSyntaxError(content)
       THEN AFinish(r, "badRequest", <<>>) /\ aidx' = aidx
       ELSE LET first == NextFuncDecl(ParseFile(content), 1)
            IN  /\ aidx' = [aidx EXCEPT ![r] = first]
                /\ AGoto(r, IF first > Len(content) THEN "metrics" ELSE "functions")
    /\ UNCHANGED <<complexity, hashWriting, crashed>>
    /\ UNCHANGED vars

handleFileAnalysis(r) ==
    \E decoded \in BOOLEAN, content \in Sources : DecodeSource(r, "file", decoded, content)

handleMetricsAnalysis(r) ==
    \E decoded \in BOOLEAN, content \in MetricsSources : DecodeSource(r, "metrics", decoded, content)

\* analyzeFunctions at a FuncDecl: the assignment to a.complexity begins.
\* The runtime ends the process when another assignment is in progress.
analyzeFunctionsAssign(r) ==
    /\ ~crashed
    /\ apc[r] = "functions"
    /\ IF hashWriting # None
       THEN crashed' = TRUE /\ UNCHANGED <<hashWriting, apc, aresult>>
       ELSE crashed' = crashed /\ hashWriting' = r /\ AGoto(r, "assigning")
    /\ UNCHANGED <<complexity, acall, aidx>>
    /\ UNCHANGED vars

\* the assignment completes; Inspect goes on to the next FuncDecl, and after
\* the last one AnalyzeFile goes on to calculateMetrics
analyzeFunctionsAssigned(r) ==
    LET file == ParseFile(acall[r].content)
        fn == file[aidx[r]]
        next == NextFuncDecl(file, aidx[r] + 1)
    IN  /\ ~crashed
        /\ apc[r] = "assigning"
        /\ hashWriting = r
        /\ complexity' = MapAssign(complexity, fn.name, calculateFunctionComplexity(fn))
        /\ hashWriting' = None
        /\ aidx' = [aidx EXCEPT ![r] = next]
        /\ AGoto(r, IF next > Len(file) THEN "metrics" ELSE "functions")
        /\ UNCHANGED <<crashed, acall>>
        /\ UNCHANGED vars

\* calculateMetrics ranges over a.complexity (the runtime ends the process
\* when an assignment to the map is in progress), AnalyzeFile returns and
\* the handler writes the result, or its Metrics
AnalyzeFileReturn(r) ==
    LET file == ParseFile(acall[r].content)
        res == AnalysisResult(file, HandlerFileSet, complexity)
    IN  /\ ~crashed
        /\ apc[r] = "metrics"
        /\ IF hashWriting # None
           THEN crashed' = TRUE /\ UNCHANGED <<apc, aresult>>
           ELSE /\ crashed' = crashed
                /\ AFinish(r, "ok", IF acall[r].op = "metrics" THEN res.Metrics ELSE res)
        /\ UNCHANGED <<complexity, hashWriting, acall, aidx>>
        /\ UNCHANGED vars

\* analyzeFunctions of one file: the assignments to a.complexity in order
RECURSIVE assignAll(_, _, _)
assignAll(cmap, fns, i) ==
    IF i > Len(fns) THEN cmap
    ELSE assignAll(MapAssign(cmap, fns[i].name, calculateFunctionComplexity(fns[i])), fns, i + 1)

\* the empty result AnalyzePackage starts from
EmptyPackageResult ==
    [Imports |-> <<>>, Functions |-> <<>>, Types |-> <<>>, Variables |-> <<>>,
     References |-> {}, Diagnostics |-> <<>>,
     Metrics |-> [LinesOfCode |-> 0, CommentLines |-> 0, FunctionCount |-> 0,
                  ComplexityScore |-> 0, InterfaceCount |-> 0, StructCount |-> 0,
                  TestCount |-> 0]]

\* one round of the loop of AnalyzePackage: append the lists of the file's
\* result and add its metrics field by field
Combine(acc, fr) ==
    [Imports |-> acc.Imports \o fr.Imports,
     Functions |-> acc.Functions \o fr.Functions,
     Types |-> acc.Types \o fr.Types,
     Variables |-> acc.Variables \o fr.Variables,
     References |-> acc.References,
     Diagnostics |-> acc.Diagnostics \o fr.Diagnostics,
     Metrics |-> [f \in DOMAIN acc.Metrics |-> acc.Metrics[f] + fr.Metrics[f]]]

\* the loop of AnalyzePackage from file k on, with complexity map cmap: the
\* combined result and the complexity map it leaves
RECURSIVE packageLoop(_, _, _, _)
packageLoop(files, k, cmap, acc) ==
    IF k > Len(files) THEN [result |-> acc, complexity |-> cmap]
    ELSE LET file == ParseFile(files[k])
             after == assignAll(cmap, FuncDecls(file), 1)
         IN  packageLoop(files, k + 1, after,
                         Combine(acc, AnalysisResult(file, AnalyzerFileSet, after)))

\* AnalyzePackage called on the analyzer with files parsed with its FileSet,
\* while no assignment to the complexity map is in progress
AnalyzePackage(r) ==
    \E files \in PackageFiles :
        LET out == packageLoop(files, 1, complexity, EmptyPackageResult)
        IN  /\ ~crashed
            /\ apc[r] = "idle"
            /\ hashWriting = None
            /\ acall' = [acall EXCEPT ![r] = [op |-> "package", content |-> files]]
            /\ complexity' = out.complexity
            /\ AFinish(r, "ok", out.result)
            /\ UNCHANGED <<hashWriting, crashed, aidx>>
            /\ UNCHANGED vars

\* the analysis handler has returned
AReturn(r) ==
    /\ ~crashed
    /\ apc[r] = "done"
    /\ apc' = [apc EXCEPT ![r] = "idle"]
    /\ acall' = [acall EXCEPT ![r] = NoSource]
    /\ aidx' = [aidx EXCEPT ![r] = 0]
    /\ aresult' = [aresult EXCEPT ![r] = NoResult]
    /\ UNCHANGED <<complexity, hashWriting, crashed>>
    /\ UNCHANGED vars

AnalyzerNext ==
    \E r \in Reqs :
        \/ handleFileAnalysis(r)
        \/ handleMetricsAnalysis(r)
        \/ analyzeFunctionsAssign(r)
        \/ analyzeFunctionsAssigned(r)
        \/ AnalyzeFileReturn(r)
        \/ AnalyzePackage(r)
        \/ AReturn(r)

ANext ==
    /\ AnalyzerNext
    /\ UNCHANGED pvars
    /\ UNCHANGED cvars
    /\ UNCHANGED svars
    /\ UNCHANGED tvars
    /\ UNCHANGED hvars

SpecAnalyzer == Init /\ [][ANext]_avars

(* ------------------- the curl processor: functions -------------------- *)
Char(str, i) == SubSeq(str, i, i)
HasPrefix(str, prefix) == Len(str) >= Len(prefix) /\ SubSeq(str, 1, Len(prefix)) = prefix
HasSuffix(str, suffix) ==
    Len(str) >= Len(suffix) /\ SubSeq(str, Len(str) - Len(suffix) + 1, Len(str)) = suffix
TrimPrefix(str, prefix) ==
    IF HasPrefix(str, prefix) THEN SubSeq(str, Len(prefix) + 1, Len(str)) ELSE str
TrimSuffix(str, suffix) ==
    IF HasSuffix(str, suffix) THEN SubSeq(str, 1, Len(str) - Len(suffix)) ELSE str

WhiteSpace == {" ", "\t", "\n", "\r"}
RECURSIVE TrimLeft(_)
TrimLeft(str) ==
    IF Len(str) > 0 /\ Char(str, 1) \in WhiteSpace THEN TrimLeft(SubSeq(str, 2, Len(str))) ELSE str
RECURSIVE TrimRight(_)
TrimRight(str) ==
    IF Len(str) > 0 /\ Char(str, Len(str)) \in WhiteSpace
    THEN TrimRight(SubSeq(str, 1, Len(str) - 1)) ELSE str
\* strings.TrimSpace
TrimSpace(str) == TrimRight(TrimLeft(str))

\* the position of the first sep in str at or after i, 0 if none
RECURSIVE IndexFrom(_, _, _)
IndexFrom(str, sep, i) ==
    IF i > Len(str) THEN 0
    ELSE IF Char(str, i) = sep THEN i
    ELSE IndexFrom(str, sep, i + 1)

\* strings.Split(str, sep) for a separator of one character
RECURSIVE Split(_, _)
Split(str, sep) ==
    LET at == IndexFrom(str, sep, 1)
    IN  IF at = 0 THEN <<str>>
        ELSE <<SubSeq(str, 1, at - 1)>> \o Split(SubSeq(str, at + 1, Len(str)), sep)

\* strings.ReplaceAll(str, old, new) for an old of one character
RECURSIVE ReplaceAll(_, _, _)
ReplaceAll(str, old, new) ==
    IF Len(str) = 0 THEN str
    ELSE (IF Char(str, 1) = old THEN new ELSE Char(str, 1))
         \o ReplaceAll(SubSeq(str, 2, Len(str)), old, new)

\* splitCommand: the loop over the characters of cmd from i on; quoteChar is
\* "" outside quotes
RECURSIVE splitCommandFrom(_, _, _, _, _)
splitCommandFrom(cmd, i, parts, current, quoteChar) ==
    IF i > Len(cmd)
    THEN IF Len(current) > 0 THEN Append(parts, current) ELSE parts
    ELSE LET ch == Char(cmd, i)
         IN  IF ch \in {"\"", "'"}
             THEN IF quoteChar = "" THEN splitCommandFrom(cmd, i + 1, parts, current, ch)
                  ELSE IF ch = quoteChar THEN splitCommandFrom(cmd, i + 1, parts, current, "")
                  ELSE splitCommandFrom(cmd, i + 1, parts, current \o ch, quoteChar)
             ELSE IF ch = " " /\ quoteChar = ""
             THEN IF Len(current) > 0
                  THEN splitCommandFrom(cmd, i + 1, Append(parts, current), "", quoteChar)
                  ELSE splitCommandFrom(cmd, i + 1, parts, current, quoteChar)
             ELSE splitCommandFrom(cmd, i + 1, parts, current \o ch, quoteChar)

splitCommand(cmd) == splitCommandFrom(cmd, 1, <<>>, "", "")

\* parseHeader and parseAuth: strings.SplitN(str, ":", 2)
SplitPair(str) ==
    LET at == IndexFrom(str, ":", 1)
    IN  IF at = 0 THEN [ok |-> FALSE, first |-> "", second |-> ""]
        ELSE [ok |-> TRUE, first |-> SubSeq(str, 1, at - 1),
              second |-> SubSeq(str, at + 1, Len(str))]

NoAuth == [Type |-> "", Username |-> "", Password |-> ""]
\* the CurlCommand ParseCurlCommand starts from
NewCurlCommand ==
    [Method |-> "GET", URL |-> "", Headers |-> <<>>, QueryParams |-> <<>>, Body |-> "",
     Auth |-> NoAuth]

\* url.ParseQuery over the pairs from i on: every key with the list of its values
RECURSIVE queryFrom(_, _, _)
queryFrom(pairs, i, values) ==
    IF i > Len(pairs) THEN values
    ELSE IF pairs[i] = "" THEN queryFrom(pairs, i + 1, values)
    ELSE LET at == IndexFrom(pairs[i], "=", 1)
             key == IF at = 0 THEN pairs[i] ELSE SubSeq(pairs[i], 1, at - 1)
             value == IF at = 0 THEN "" ELSE SubSeq(pairs[i], at + 1, Len(pairs[i]))
             before == IF key \in DOMAIN values THEN values[key] ELSE <<>>
         IN  queryFrom(pairs, i + 1, MapAssign(values, key, Append(before, value)))

\* url.Parse(part).Query() for a URL without fragment and escapes
Query(part) ==
    LET at == IndexFrom(part, "?", 1)
    IN  IF at = 0 THEN <<>>
        ELSE queryFrom(Split(SubSeq(part, at + 1, Len(part)), "&"), 1, <<>>)

\* the loop of ParseCurlCommand over the parts from i on
RECURSIVE parseParts(_, _, _)
parseParts(parts, i, curl) ==
    IF i > Len(parts) THEN curl
    ELSE LET part == parts[i]
             value == i + 1 <= Len(parts)
         IN  IF part \in {"-X", "--request"}
             THEN IF value THEN parseParts(parts, i + 2, [curl EXCEPT !.Method = parts[i + 1]])
                  ELSE parseParts(parts, i + 1, curl)
             ELSE IF part \in {"-H", "--header"}
             THEN IF value
                  THEN LET h == SplitPair(parts[i + 1])
                       IN  parseParts(parts, i + 2,
                             IF h.ok
                             THEN [curl EXCEPT !.Headers =
                                     MapAssign(@, TrimSpace(h.first), TrimSpace(h.second))]
                             ELSE curl)
                  ELSE parseParts(parts, i + 1, curl)
             ELSE IF part \in {"-d", "--data", "--data-raw"}
             THEN IF value
                  THEN parseParts(parts, i + 2,
                         [curl EXCEPT !.Body = parts[i + 1],
                                      !.Method = IF @ = "GET" THEN "POST" ELSE @])
                  ELSE parseParts(parts, i + 1, curl)
             ELSE IF part \in {"-u", "--user"}
             THEN IF value
                  THEN LET a == SplitPair(parts[i + 1])
                       IN  parseParts(parts, i + 2,
                             IF a.ok
                             THEN [curl EXCEPT !.Auth = [Type |-> "basic", Username |-> a.first,
                                                         Password |-> a.second]]
                             ELSE curl)
                  ELSE parseParts(parts, i + 1, curl)
             ELSE IF HasPrefix(part, "http://") \/ HasPrefix(part, "https://")
             THEN parseParts(parts, i + 1, [curl EXCEPT !.URL = part, !.QueryParams = Query(part)])
             ELSE parseParts(parts, i + 1, curl)

\* ParseCurlCommand: the command, or the error that no URL was found
ParseCurlCommand(cmd) ==
    LET curl == parseParts(splitCommand(TrimSpace(TrimPrefix(cmd, "curl"))), 1, NewCurlCommand)
    IN  IF curl.URL = "" THEN [err |-> "no URL found in curl command", cmd |-> NewCurlCommand]
        ELSE [err |-> "nil", cmd |-> curl]

\* the loop of splitCommands over the lines from i on
RECURSIVE splitCommandsFrom(_, _, _, _)
splitCommandsFrom(lines, i, commands, currentCmd) ==
    IF i > Len(lines) THEN commands
    ELSE LET line == TrimSpace(lines[i])
         IN  IF line = "" THEN splitCommandsFrom(lines, i + 1, commands, currentCmd)
             ELSE IF HasSuffix(line, "\\")
             THEN splitCommandsFrom(lines, i + 1, commands,
                                    currentCmd \o TrimSuffix(line, "\\") \o " ")
             ELSE splitCommandsFrom(lines, i + 1, Append(commands, currentCmd \o line), "")

splitCommands(content) == splitCommandsFrom(Split(content, "\n"), 1, <<>>, "")

\* the commands of a list that parse, in order
RECURSIVE parseAll(_, _)
parseAll(commands, i) ==
    IF i > Len(commands) THEN <<>>
    ELSE LET res == ParseCurlCommand(commands[i])
         IN  (IF res.err = "nil" THEN <<res.cmd>> ELSE <<>>) \o parseAll(commands, i + 1)

\* ParseCurlCollection
ParseCurlCollection(content, name) ==
    LET parsed == parseAll(splitCommands(content), 1)
    IN  IF Len(parsed) = 0
        THEN [err |-> "no valid curl commands found", Name |-> name, Commands |-> <<>>]
        ELSE [err |-> "nil", Name |-> name, Commands |-> parsed]

(* ------------------ the specification processor: steps ---------------- *)
\* strings.ToLower(filepath.Ext(filePath))
ToLowerExt(ext) == IF ext = ".JSON" THEN ".json" ELSE ext

\* "<kind>-" + strings.TrimSuffix(filepath.Base(filePath), filepath.Ext(filePath))
\* validIDPattern, the ids Context.Validate accepts
IDChars ==
    LET chars == "abcdefghijklmnopqrstuvwxyzABCDEFGHIJKLMNOPQRSTUVWXYZ0123456789-_"
    IN  {Char(chars, i) : i \in 1..Len(chars)}
ValidID(id) == Len(id) > 0 /\ \A i \in 1..Len(id) : Char(id, i) \in IDChars

ContextID(kind, file) == kind \o "-" \o file.base

\* The answer to MCPClient.CreateContext(id, metadata): an error when the
\* request does not reach the server or the server (MemoryStore.Create
\* behind handleCreateContext) answers another status than 201 Created
CreateContextError(id, reached) ==
    IF ~reached THEN "failed to create context"
    ELSE IF ~ValidID(id) THEN "failed to create context, status: 400"
    ELSE IF id \in DOMAIN contexts THEN "failed to create context, status: 409"
    ELSE "nil"

\* the server's store after the request
CreateContextStore(id, type, reached) ==
    IF reached /\ ValidID(id) /\ id \notin DOMAIN contexts
    THEN [k \in DOMAIN contexts \cup {id} |-> IF k = id THEN type ELSE contexts[k]]
    ELSE contexts

CreateContextLog(id, type, reached) ==
    IF reached /\ ValidID(id) /\ id \notin DOMAIN contexts
    THEN Append(pcreated, [id |-> id, type |-> type])
    ELSE pcreated

\* ProcessFile up to the switch on the extension
ProcessFile(file) ==
    /\ ppc = "idle"
    /\ pfile' = file
    /\ pcreated' = <<>>
    /\ IF ToLowerExt(file.ext) = ".json" THEN ppc' = "postman" /\ perr' = "nil"
       ELSE IF ToLowerExt(file.ext) \in {".yaml", ".yml"} THEN ppc' = "openapi" /\ perr' = "nil"
       ELSE ppc' = "done" /\ perr' = "unsupported file type"
    /\ UNCHANGED contexts

\* case ".json": ProcessPostmanCollection, and on its error the switch goes
\* on to ProcessOpenAPISpec
ProcessPostmanCollection ==
    /\ ppc = "postman"
    /\ \E reached \in BOOLEAN :
         LET id == ContextID("postman", pfile)
             err == IF ~pfile.parses THEN "failed to parse Postman collection"
                    ELSE IF "info" \notin pfile.keys THEN "not a valid Postman collection"
                    ELSE CreateContextError(id, reached)
             posted == pfile.parses /\ "info" \in pfile.keys
         IN  /\ contexts' = IF posted THEN CreateContextStore(id, "postman", reached) ELSE contexts
             /\ pcreated' = IF posted THEN CreateContextLog(id, "postman", reached) ELSE pcreated
             /\ perr' = err
             /\ ppc' = IF err = "nil" THEN "done" ELSE "openapi"
    /\ UNCHANGED pfile
    /\ UNCHANGED dvars

\* ProcessOpenAPISpec, then the end of ProcessFile
ProcessOpenAPISpec ==
    /\ ppc = "openapi"
    /\ \E reached \in BOOLEAN :
         LET id == ContextID("openapi", pfile)
             err == IF ~pfile.parses THEN "failed to parse OpenAPI spec"
                    ELSE IF "openapi" \notin pfile.keys THEN "not a valid OpenAPI specification"
                    ELSE CreateContextError(id, reached)
             posted == pfile.parses /\ "openapi" \in pfile.keys
         IN  /\ contexts' = IF posted THEN CreateContextStore(id, "openapi", reached) ELSE contexts
             /\ pcreated' = IF posted THEN CreateContextLog(id, "openapi", reached) ELSE pcreated
             /\ perr' = err
             /\ ppc' = "done"
    /\ UNCHANGED pfile
    /\ UNCHANGED dvars

\* a call of ProcessFile by a caller other than ProcessDirectory
ProcessFileCall ==
    \E file \in SpecFiles :
        /\ pdpc = "idle"
        /\ ProcessFile(file)
        /\ UNCHANGED dvars

\* a loop that returns at the first file that fails
ProcessFileReturnStopOnError ==
    /\ ppc = "done"
    /\ ppc' = "idle"
    /\ pfile' = NoFile
    /\ perr' = "nil"
    /\ pcreated' = <<>>
    /\ IF pdpc = "loop"
       THEN /\ pattempted' = Append(pattempted, [file |-> pfile, err |-> perr])
            /\ pqueue' = IF perr = "nil" THEN pqueue ELSE <<>>
            /\ UNCHANGED <<pdpc, pdir, pderr>>
       ELSE UNCHANGED dvars
    /\ UNCHANGED contexts

\* ProcessFile has returned perr to its caller; the loop of
\* ProcessDirectory logs the error and continues
ProcessFileReturn ==
    /\ ppc = "done"
    /\ ppc' = "idle"
    /\ pfile' = NoFile
    /\ perr' = "nil"
    /\ pcreated' = <<>>
    /\ IF pdpc = "loop"
       THEN /\ pattempted' = Append(pattempted, [file |-> pfile, err |-> perr])
            /\ UNCHANGED <<pdpc, pdir, pqueue, pderr>>
       ELSE UNCHANGED dvars
    /\ UNCHANGED contexts

IsDir(entry) == Attr(entry, "isDir", FALSE)

\* ProcessDirectory up to its loop: ioutil.ReadDir
ProcessDirectory ==
    \E dir \in Directories :
        /\ pdpc = "idle"
        /\ ppc = "idle"
        /\ pdir' = dir
        /\ pattempted' = <<>>
        /\ IF dir.readable
           THEN pdpc' = "loop" /\ pqueue' = dir.entries /\ pderr' = "nil"
           ELSE pdpc' = "done" /\ pqueue' = <<>> /\ pderr' = "failed to read directory"
        /\ UNCHANGED <<contexts, ppc, pfile, perr, pcreated>>

\* one round of the loop: a directory is skipped, a file goes to ProcessFile
ProcessDirectoryEntry ==
    /\ pdpc = "loop"
    /\ ppc = "idle"
    /\ pqueue # <<>>
    /\ pqueue' = Tail(pqueue)
    /\ IF IsDir(Head(pqueue))
       THEN UNCHANGED <<contexts, ppc, pfile, perr, pcreated>>
       ELSE ProcessFile(Head(pqueue))
    /\ UNCHANGED <<pdpc, pdir, pattempted, pderr>>

\* the loop is over: return nil
ProcessDirectoryEnd ==
    /\ pdpc = "loop"
    /\ ppc = "idle"
    /\ pqueue = <<>>
    /\ pdpc' = "done"
    /\ pderr' = "nil"
    /\ UNCHANGED <<contexts, ppc, pfile, perr, pcreated, pdir, pqueue, pattempted>>

\* ProcessDirectory has returned pderr to its caller
ProcessDirectoryReturn ==
    /\ pdpc = "done"
    /\ pdpc' = "idle"
    /\ pdir' = EmptyDir
    /\ pattempted' = <<>>
    /\ pderr' = "nil"
    /\ UNCHANGED <<contexts, ppc, pfile, perr, pcreated, pqueue>>

ProcessorNext ==
    \/ ProcessFileCall
    \/ ProcessPostmanCollection
    \/ ProcessOpenAPISpec
    \/ ProcessFileReturn
    \/ ProcessDirectory
    \/ ProcessDirectoryEntry
    \/ ProcessDirectoryEnd
    \/ ProcessDirectoryReturn

PNext ==
    /\ ProcessorNext
    /\ UNCHANGED vars
    /\ UNCHANGED avars
    /\ UNCHANGED cvars
    /\ UNCHANGED svars
    /\ UNCHANGED tvars
    /\ UNCHANGED hvars

SpecProcessor == Init /\ [][PNext]_pvars

(* --------------------- the curl processor: steps ---------------------- *)
\* a call of ParseCurlCommand with the text of a command
ParseCurlCommandCall ==
    \E args \in CurlCommands :
        /\ cpc = "idle"
        /\ ccall' = [op |-> "ParseCurlCommand", args |-> args]
        /\ ccommand' = ParseCurlCommand(Render(args))
        /\ cerr' = ccommand'.err
        /\ cpc' = "done"
        /\ UNCHANGED <<ccollection, contexts>>

\* ProcessCurlContent and ProcessCurlFile from ParseCurlCollection on
ProcessCollection(op, lines, name, source) ==
    /\ ccall' = [op |-> op, lines |-> lines, name |-> name, source |-> source]
    /\ ccollection' = ParseCurlCollection(JoinLines(lines, 1), name)
    /\ IF ccollection'.err # "nil"
       THEN /\ cerr' = "failed to parse curl collection: " \o ccollection'.err
            /\ cpc' = "done"
       ELSE /\ cerr' = "nil"
            /\ cpc' = "create"
    /\ UNCHANGED <<ccommand, contexts>>

ProcessCurlContent ==
    \E lines \in CurlContents, name \in CollectionNames :
        /\ cpc = "idle"
        /\ ProcessCollection("ProcessCurlContent", lines, name, "inline")

ProcessCurlFile ==
    \E file \in CurlFiles :
        /\ cpc = "idle"
        /\ IF ~file.readable
           THEN /\ ccall' = [op |-> "ProcessCurlFile", lines |-> file.lines,
                             name |-> "", source |-> file.path]
                /\ cerr' = "failed to read curl file"
                /\ cpc' = "done"
                /\ UNCHANGED <<ccommand, ccollection, contexts>>
           ELSE ProcessCollection("ProcessCurlFile", file.lines,
                                  TrimSuffix(file.path, ".txt"), file.path)

\* createMCPContext: the context of the collection is posted to the server
createMCPContext ==
    \E reached \in BOOLEAN :
        LET contextID == "curl-" \o ReplaceAll(ccollection.Name, " ", "-")
        IN  /\ cpc = "create"
            /\ cerr' = CreateContextError(contextID, reached)
            /\ contexts' = CreateContextStore(contextID, "curl", reached)
            /\ cpc' = "done"
            /\ UNCHANGED <<ccall, ccommand, ccollection>>

\* the call has returned cerr to its caller
CurlReturn ==
    /\ cpc = "done"
    /\ cpc' = "idle"
    /\ ccall' = NoCurlCall
    /\ ccommand' = NoCommand
    /\ ccollection' = NoCollection
    /\ cerr' = "nil"
    /\ UNCHANGED contexts

CurlNext ==
    \/ ParseCurlCommandCall
    \/ ProcessCurlContent
    \/ ProcessCurlFile
    \/ createMCPContext
    \/ CurlReturn

CNext ==
    /\ CurlNext
    /\ UNCHANGED vars
    /\ UNCHANGED avars
    /\ UNCHANGED <<ppc, pfile, perr, pcreated>>
    /\ UNCHANGED dvars
    /\ UNCHANGED svars
    /\ UNCHANGED tvars
    /\ UNCHANGED hvars

SpecCurl == Init /\ [][CNext]_<<contexts, cvars>>

(* ---------------------------- MemoryStore ----------------------------- *)
\* Context.Validate
Validate(ctx) ==
    IF ~ValidID(ctx.ID) THEN "ErrInvalidID"
    ELSE IF ctx.Metadata.nil THEN "ErrInvalidMetadata"
    ELSE "nil"

\* Context.Clone: a new Metadata map with the entries of the old one; an
\* entry that refers to a map object refers to the same object in the copy
Clone(c) ==
    [ID |-> c.ID,
     Metadata |-> Entries([k \in DOMAIN c.Metadata.entries |-> c.Metadata.entries[k]])]

\* Create without the check for an existing id
StoreCreateReplace(ctx) ==
    /\ sop' = [name |-> "Create", id |-> ctx.ID]
    /\ mine' = ctx
    /\ serr' = Validate(ctx)
    /\ stored' = IF serr' = "nil" THEN MapAssign(stored, ctx.ID, Clone(ctx)) ELSE stored
    /\ UNCHANGED <<heap, slist>>

\* MemoryStore.Create(ctx)
StoreCreate(ctx) ==
    /\ sop' = [name |-> "Create", id |-> ctx.ID]
    /\ mine' = ctx
    /\ serr' = IF Validate(ctx) # "nil" THEN Validate(ctx)
               ELSE IF ctx.ID \in DOMAIN stored THEN "ErrContextExists"
               ELSE "nil"
    /\ stored' = IF serr' = "nil" THEN MapAssign(stored, ctx.ID, Clone(ctx)) ELSE stored
    /\ UNCHANGED <<heap, slist>>

\* MemoryStore.Get(id)
StoreGet(id) ==
    /\ sop' = [name |-> "Get", id |-> id]
    /\ IF id \in DOMAIN stored
       THEN /\ mine' = Clone(stored[id])
            /\ serr' = "nil"
       ELSE /\ mine' = NoContext
            /\ serr' = "ErrContextNotFound"
    /\ UNCHANGED <<stored, heap, slist>>

\* MemoryStore.Update(ctx)
StoreUpdate(ctx) ==
    /\ sop' = [name |-> "Update", id |-> ctx.ID]
    /\ mine' = ctx
    /\ serr' = IF Validate(ctx) # "nil" THEN Validate(ctx)
               ELSE IF ctx.ID \notin DOMAIN stored THEN "ErrContextNotFound"
               ELSE "nil"
    /\ stored' = IF serr' = "nil" THEN MapAssign(stored, ctx.ID, Clone(ctx)) ELSE stored
    /\ UNCHANGED <<heap, slist>>

\* MemoryStore.Delete(id)
StoreDelete(id) ==
    /\ sop' = [name |-> "Delete", id |-> id]
    /\ IF id \in DOMAIN stored
       THEN /\ stored' = [k \in DOMAIN stored \ {id} |-> stored[k]]
            /\ serr' = "nil"
       ELSE /\ stored' = stored
            /\ serr' = "ErrContextNotFound"
    /\ UNCHANGED <<heap, mine, slist>>

\* MemoryStore.List()
StoreList ==
    /\ sop' = [name |-> "List", id |-> ""]
    /\ slist' = {Clone(stored[id]) : id \in DOMAIN stored}
    /\ serr' = "nil"
    /\ UNCHANGED <<stored, heap, mine>>

\* The caller assigns to a key of the Metadata of its context
CallerSetKey ==
    \E key \in {"type"}, value \in MetadataValues :
        /\ ~mine.Metadata.nil
        /\ sop' = [name |-> "CallerSetKey", id |-> mine.ID]
        /\ mine' = [mine EXCEPT !.Metadata.entries = MapAssign(@, key, value)]
        /\ UNCHANGED <<stored, heap, slist, serr>>

\* The caller assigns inside a map object nested in the Metadata of its context
CallerSetNested ==
    \E key \in {"type", "nested"}, value \in CellValues :
        /\ key \in DOMAIN mine.Metadata.entries
        /\ mine.Metadata.entries[key].kind = "map"
        /\ sop' = [name |-> "CallerSetNested", id |-> mine.ID]
        /\ heap' = [heap EXCEPT ![mine.Metadata.entries[key].ref] = value]
        /\ UNCHANGED <<stored, mine, slist, serr>>

CallerContexts == {[ID |-> id, Metadata |-> md] : id \in StoreIDs \cup {BadID}, md \in CallerMetadata}

StoreNext ==
    \/ \E ctx \in CallerContexts : StoreCreate(ctx)
    \/ \E id \in StoreIDs : StoreGet(id)
    \/ \E ctx \in CallerContexts : StoreUpdate(ctx)
    \/ \E id \in StoreIDs : StoreDelete(id)
    \/ StoreList
    \/ CallerSetKey
    \/ CallerSetNested

SNext ==
    /\ StoreNext
    /\ UNCHANGED vars
    /\ UNCHANGED avars
    /\ UNCHANGED pvars
    /\ UNCHANGED cvars
    /\ UNCHANGED tvars
    /\ UNCHANGED hvars

SpecStore == Init /\ [][SNext]_svars

(* ---------------------------- TaskManager ----------------------------- *)
Step(name, id, err) == [name |-> name, id |-> id, err |-> err]
SetStatus(id, status) == [tasks EXCEPT ![id].Status = status]

\* TaskManager.StartTask(task, executor)
StartTask(task) ==
    IF task.ID \in DOMAIN tasks
    THEN /\ tlast' = Step("StartTask", task.ID, "already running")
         /\ UNCHANGED <<tasks, cancel, ctxDone, gpc, tstopped>>
    ELSE /\ tasks' = MapAssign(tasks, task.ID, task)
         /\ cancel' = cancel \cup {task.ID}
         /\ gpc' = [gpc EXCEPT ![task.ID] = "select"]
         /\ tlast' = Step("StartTask", task.ID, "nil")
         /\ UNCHANGED <<ctxDone, tstopped>>

\* TaskManager.StopTask(taskID) behind handleStopTask
StopTask(id) ==
    IF id \notin cancel
    THEN /\ tlast' = Step("StopTask", id, "not found")
         /\ UNCHANGED <<tasks, cancel, ctxDone, gpc, tstopped>>
    ELSE /\ ctxDone' = ctxDone \cup {id}
         /\ cancel' = cancel \ {id}
         /\ tstopped' = tstopped \cup {id}
         /\ tlast' = Step("StopTask", id, "nil")
         /\ UNCHANGED <<tasks, gpc>>

\* TaskManager.GetTask(taskID) behind handleGetTask
GetTask(id) ==
    /\ tlast' = Step("GetTask", id, IF id \in DOMAIN tasks THEN "nil" ELSE "task not found")
    /\ UNCHANGED <<tasks, cancel, ctxDone, gpc, tstopped>>

\* TaskManager.ListTasks() behind handleListTasks
ListTasks ==
    /\ tlast' = Step("ListTasks", "", "nil")
    /\ UNCHANGED <<tasks, cancel, ctxDone, gpc, tstopped>>

\* the select of the goroutine: the context is done, or the default case
TaskSelect(id) ==
    /\ gpc[id] = "select"
    /\ IF id \in ctxDone
       THEN /\ tasks' = SetStatus(id, "stopped")
            /\ gpc' = [gpc EXCEPT ![id] = "returned"]
       ELSE /\ tasks' = tasks
            /\ gpc' = [gpc EXCEPT ![id] = "execute"]
    /\ tlast' = Step("goroutine", id, "nil")
    /\ UNCHANGED <<cancel, ctxDone, tstopped>>

\* executor.Execute has returned: the error of an empty command, otherwise
\* nil when the command has ended, also when the context killed it
TaskExecuteReturn(id) ==
    /\ gpc[id] = "execute"
    /\ IF tasks[id].Command = ""
       THEN /\ tasks' = SetStatus(id, "error: empty command")
            /\ gpc' = [gpc EXCEPT ![id] = IF tasks[id].AutoRestart THEN "sleep" ELSE "returned"]
       ELSE IF tasks[id].AutoRestart
       THEN /\ tasks' = tasks
            /\ gpc' = [gpc EXCEPT ![id] = "sleep"]
       ELSE /\ tasks' = SetStatus(id, "completed")
            /\ gpc' = [gpc EXCEPT ![id] = "returned"]
    /\ tlast' = Step("goroutine", id, "nil")
    /\ UNCHANGED <<cancel, ctxDone, tstopped>>

\* time.Sleep(time.Second) is over
TaskSleepEnd(id) ==
    /\ gpc[id] = "sleep"
    /\ gpc' = [gpc EXCEPT ![id] = "select"]
    /\ tlast' = Step("goroutine", id, "nil")
    /\ UNCHANGED <<tasks, cancel, ctxDone, tstopped>>

TaskNext ==
    \/ \E task \in Tasks : StartTask(task)
    \/ \E id \in TaskIDs : StopTask(id)
    \/ \E id \in TaskIDs : GetTask(id)
    \/ ListTasks
    \/ \E id \in TaskIDs : TaskSelect(id)
    \/ \E id \in TaskIDs : TaskExecuteReturn(id)
    \/ \E id \in TaskIDs : TaskSleepEnd(id)

TNext ==
    /\ TaskNext
    /\ UNCHANGED vars
    /\ UNCHANGED avars
    /\ UNCHANGED pvars
    /\ UNCHANGED cvars
    /\ UNCHANGED svars
    /\ UNCHANGED hvars

SpecTasks == Init /\ [][TNext]_tvars

\* A goroutine that can run does run; a command that was killed, or that is
\* refused, ends (a command that is left alone may run for ever)
TaskStep(id) ==
    /\ \/ TaskSelect(id)
       \/ TaskSleepEnd(id)
       \/ (id \in DOMAIN tasks /\ (id \in ctxDone \/ tasks[id].Command = "")
            /\ TaskExecuteReturn(id))
    /\ UNCHANGED vars
    /\ UNCHANGED avars
    /\ UNCHANGED pvars
    /\ UNCHANGED cvars
    /\ UNCHANGED svars
    /\ UNCHANGED hvars

SpecTasksLive == SpecTasks /\ \A id \in TaskIDs : WF_tvars(TaskStep(id))

(* ----------------------------- SSHManager ----------------------------- *)
SSHFinish(r, op, id, client, status) ==
    /\ spc' = [spc EXCEPT ![r] = "done"]
    /\ scall' = [scall EXCEPT ![r] = [op |-> op, id |-> id, client |-> client]]
    /\ sresult' = [sresult EXCEPT ![r] = status]

\* handleSSHConnect: the whole handler runs under manager.mu
handleSSHConnect(r) ==
    \E decoded \in BOOLEAN, id \in SSHIDs, auth \in BOOLEAN, dial \in BOOLEAN :
        /\ spc[r] = "idle"
        /\ IF ~decoded
           THEN /\ SSHFinish(r, "connect", "", NoClient, 400)
                /\ UNCHANGED <<clients, created, connected, openConns>>
           ELSE IF id \in DOMAIN clients
           THEN /\ SSHFinish(r, "connect", id, NoClient, 409)
                /\ UNCHANGED <<clients, created, connected, openConns>>
           ELSE IF ~auth
           THEN /\ SSHFinish(r, "connect", id, NoClient, 500)
                /\ UNCHANGED <<clients, created, connected, openConns>>
           ELSE /\ created < MaxClients
                /\ created' = created + 1
                /\ IF dial
                   THEN /\ clients' = MapAssign(clients, id, created + 1)
                        /\ connected' = connected \cup {created + 1}
                        /\ openConns' = openConns \cup {created + 1}
                        /\ SSHFinish(r, "connect", id, created + 1, 201)
                   ELSE /\ SSHFinish(r, "connect", id, created + 1, 500)
                        /\ UNCHANGED <<clients, connected, openConns>>
        /\ UNCHANGED hDisconnected

\* handleSSHDisconnect with SSHClient.Close, under manager.mu
handleSSHDisconnect(r) ==
    \E id \in SSHIDs, closed \in BOOLEAN :
        /\ spc[r] = "idle"
        /\ IF id \notin DOMAIN clients
           THEN /\ SSHFinish(r, "disconnect", id, NoClient, 404)
                /\ UNCHANGED <<clients, connected, openConns, hDisconnected>>
           ELSE LET client == clients[id]
                IN  IF client \in connected /\ ~closed
                    THEN /\ SSHFinish(r, "disconnect", id, client, 500)
                         /\ UNCHANGED <<clients, connected, openConns, hDisconnected>>
                    ELSE /\ connected' = connected \ {client}
                         /\ openConns' = IF client \in connected THEN openConns \ {client}
                                         ELSE openConns
                         /\ clients' = [k \in DOMAIN clients \ {id} |-> clients[k]]
                         /\ hDisconnected' = hDisconnected \cup {client}
                         /\ SSHFinish(r, "disconnect", id, client, 200)
        /\ UNCHANGED created

\* handleSSHExec, handleSSHUpload and handleSSHDownload up to the lookup of
\* the client under manager.mu.RLock
SSHLookup(r, op) ==
    \E decoded \in BOOLEAN, id \in SSHIDs :
        /\ spc[r] = "idle"
        /\ IF ~decoded THEN SSHFinish(r, op, "", NoClient, 400)
           ELSE IF id \notin DOMAIN clients THEN SSHFinish(r, op, id, NoClient, 404)
           ELSE /\ spc' = [spc EXCEPT ![r] = "execute"]
                /\ scall' = [scall EXCEPT ![r] = [op |-> op, id |-> id, client |-> clients[id]]]
                /\ sresult' = sresult
        /\ UNCHANGED <<clients, created, connected, openConns, hDisconnected>>

handleSSHExec(r) == SSHLookup(r, "exec")
handleSSHUpload(r) == SSHLookup(r, "upload")
handleSSHDownload(r) == SSHLookup(r, "download")

\* ExecuteCommand, UploadFile and DownloadFile on the client found: Connect
\* dials when the connected flag is not set, then the session or transfer
SSHClientCall(r) ==
    \E dial \in BOOLEAN, done \in BOOLEAN :
        LET client == scall[r].client
        IN  /\ spc[r] = "execute"
            /\ IF client \in connected
               THEN /\ SSHFinish(r, scall[r].op, scall[r].id, client, IF done THEN 200 ELSE 500)
                    /\ UNCHANGED <<connected, openConns>>
               ELSE IF dial
               THEN /\ connected' = connected \cup {client}
                    /\ openConns' = openConns \cup {client}
                    /\ SSHFinish(r, scall[r].op, scall[r].id, client, IF done THEN 200 ELSE 500)
               ELSE /\ SSHFinish(r, scall[r].op, scall[r].id, client, 500)
                    /\ UNCHANGED <<connected, openConns>>
            /\ UNCHANGED <<clients, created, hDisconnected>>

\* the handler has returned
SSHReturn(r) ==
    /\ spc[r] = "done"
    /\ spc' = [spc EXCEPT ![r] = "idle"]
    /\ scall' = [scall EXCEPT ![r] = NoSSHCall]
    /\ sresult' = [sresult EXCEPT ![r] = 0]
    /\ UNCHANGED <<clients, created, connected, openConns, hDisconnected>>

SSHNext ==
    \E r \in Reqs :
        \/ handleSSHConnect(r)
        \/ handleSSHDisconnect(r)
        \/ handleSSHExec(r)
        \/ handleSSHUpload(r)
        \/ handleSSHDownload(r)
        \/ SSHClientCall(r)
        \/ SSHReturn(r)

HNext ==
    /\ SSHNext
    /\ UNCHANGED vars
    /\ UNCHANGED avars
    /\ UNCHANGED pvars
    /\ UNCHANGED cvars
    /\ UNCHANGED svars
    /\ UNCHANGED tvars

SpecSSH == Init /\ [][HNext]_hvars

LSPNext ==
    \E r \in Reqs :
        \/ Return(r)
        \/ handleOpenDocument(r)
        \/ handleChangeDocument(r)
        \/ parseDocumentParse(r)
        \/ parseDocumentLock(r)
        \/ parseDocumentCommit(r)
        \/ handleCloseDocument(r)
        \/ closeLock(r)
        \/ closeDelete(r)
        \/ handleDocumentSymbols(r)
        \/ symbolsRLock(r)
        \/ symbolsRead(r)
        \/ handleCompletion(r)
        \/ handleDefinition(r)
        \/ handleHover(r)

Next ==
    /\ LSPNext
    /\ UNCHANGED avars
    /\ UNCHANGED pvars
    /\ UNCHANGED cvars
    /\ UNCHANGED svars
    /\ UNCHANGED tvars
    /\ UNCHANGED hvars

Spec == Init /\ [][Next]_vars

\* The steps of a request that is under way: a goroutine that can run does
\* run, and a goroutine waiting for ls.mu gets it when it is free again and
\* again (sync.RWMutex hands the lock to a waiter that starves)
RunningStep(r) ==
    /\ \/ parseDocumentParse(r)
       \/ parseDocumentCommit(r)
       \/ closeDelete(r)
       \/ symbolsRead(r)
       \/ Return(r)
    /\ UNCHANGED avars
    /\ UNCHANGED pvars
    /\ UNCHANGED cvars
    /\ UNCHANGED svars
    /\ UNCHANGED tvars
    /\ UNCHANGED hvars

LockStep(r) ==
    /\ \/ parseDocumentLock(r)
       \/ closeLock(r)
       \/ symbolsRLock(r)
    /\ UNCHANGED avars
    /\ UNCHANGED pvars
    /\ UNCHANGED cvars
    /\ UNCHANGED svars
    /\ UNCHANGED tvars
    /\ UNCHANGED hvars

\* The requests of the runs with fairness: one uri, a text that parses and
\* one that does not (the lock does not depend on more)
LiveNext ==
    /\ Next
    /\ \A r \in Reqs : call'[r].uri \in {"", "a.go"} /\ call'[r].text \in {<<>>, TextA, TextBad}

SpecLive ==
    /\ Init
    /\ [][LiveNext]_vars
    /\ \A r \in Reqs : WF_vars(RunningStep(r)) /\ SF_vars(LockStep(r))

TypeOK ==
    /\ DOMAIN documents \subseteq DocURIs
    /\ mu.writer \in Reqs \cup {None}
    /\ mu.readers \subseteq Reqs
    /\ DOMAIN complexity \subseteq {"Run", "Walk", "Sum", "TestRun", "helper"}
    /\ hashWriting \in Reqs \cup {None}
    /\ \A r \in Reqs : apc[r] \in {"idle", "functions", "assigning", "metrics", "done"}

(* ------------------------------ claims -------------------------------- *)
InFlight(r) == pc[r] \notin {"idle", "done"}
\* request r takes the step that writes its response
Finishes(r) == InFlight(r) /\ pc'[r] = "done"
\* request r takes the step that ends the critical section of parseDocument
Commits(r) == pc[r] = "commit" /\ pc'[r] = "done"
Stored(uri, text) ==
    /\ uri \in DOMAIN documents'
    /\ documents'[uri].Text = text
    /\ documents'[uri].Symbols = extractSymbols(ParseFile(text))
OthersKept(uri) ==
    \A u \in DocURIs \ {uri} :
        /\ u \in DOMAIN documents <=> u \in DOMAIN documents'
        /\ u \in DOMAIN documents => documents'[u] = documents[u]

\* C1: openDocument on a uri without entry, with text that parses, answers ok
\* and afterwards the map holds an entry for uri with that text and the
\* symbols extracted from it.
C1_OpenStoresDocument ==
    [][\A r \in Reqs :
         (Commits(r) /\ call[r].op = "open" /\ call[r].uri \notin DOMAIN documents)
         => (result'[r].status = "ok" /\ Stored(call[r].uri, call[r].text))]_vars

\* C2: an open or change whose text fails to parse reports an error and
\* leaves the document map exactly as it was.
C2_SyntaxErrorKeepsDocuments ==
    [][\A r \in Reqs :
         (call[r].op \in {"open", "change"} /\ InFlight(r)
            /\ HasSyntaxError(call[r].text) /\ pc'[r] # pc[r])
         => (pc'[r] = "done" /\ result'[r].status = "internalError"
               /\ documents' = documents)]_vars

C2_Witness ==
    \E r \in Reqs, q \in Reqs :
        /\ pc[r] = "done" /\ call[r].op = "open" /\ HasSyntaxError(call[r].text)
        /\ result[r].status = "internalError" /\ call[r].uri \notin DOMAIN documents
        /\ pc[q] = "done" /\ call[q].op = "change" /\ HasSyntaxError(call[q].text)
        /\ result[q].status = "internalError"

\* C3: changeDocument on an open uri with text that parses answers ok and
\* replaces the text and the symbols stored for uri; no other entry changes.
C3_ChangeReplacesDocument ==
    [][\A r \in Reqs :
         (Commits(r) /\ call[r].op = "change" /\ call[r].uri \in hOpened)
         => (result'[r].status = "ok" /\ Stored(call[r].uri, call[r].text)
               /\ OthersKept(call[r].uri))]_vars

\* C4: after an open or change with text that parses, the version stored for
\* uri is the version the caller supplied.
C4_StoredVersionIsCallers ==
    [][\A r \in Reqs :
         (Commits(r) /\ (call[r].op = "open" \/ call[r].uri \in hOpened))
         => (call[r].uri \in DOMAIN documents'
               /\ documents'[call[r].uri].Version = call[r].version)]_vars

\* C5: a change of an open uri that commits when a newer version is already
\* stored discards its result, and otherwise its text is stored; so of two
\* racing changes the one with the higher version determines the document.
C5_NewestVersionWins ==
    [][\A r \in Reqs :
         (Commits(r) /\ call[r].op = "change" /\ call[r].uri \in hOpened)
         => IF call[r].uri \in DOMAIN documents
               /\ documents[call[r].uri].Version > call[r].version
            THEN documents' = documents
            ELSE Stored(call[r].uri, call[r].text)]_vars

\* C6: closeDocument answers ok whether or not uri is open, afterwards the
\* map has no entry for uri, and the entries of other uris are unchanged.
C6_CloseRemovesEntry ==
    [][\A r \in Reqs :
         (call[r].op = "close" /\ Finishes(r))
         => (result'[r].status = "ok" /\ call[r].uri \notin DOMAIN documents'
               /\ OthersKept(call[r].uri))]_vars

C6_Witness ==
    \E r \in Reqs :
        /\ pc[r] = "done" /\ call[r].op = "close" /\ call[r].decoded
        /\ result[r].status = "ok" /\ call[r].uri \notin DOMAIN documents

\* C7 as stated: getSymbols answers NotFound exactly when uri has no entry,
\* and otherwise answers the stored symbols.
C7_NotFoundIffNoEntry ==
    [][\A r \in Reqs :
         (call'[r].op = "symbols" /\ pc[r] # "done" /\ pc'[r] = "done")
         => /\ result'[r].status = "notFound" <=> call'[r].uri \notin DOMAIN documents
            /\ call'[r].uri \in DOMAIN documents
                 => result'[r] = Response("ok", documents[call'[r].uri].Symbols)]_vars

\* C7 amended: for a non-empty uri getSymbols answers NotFound exactly when
\* uri has no entry and otherwise the stored symbols; an empty uri is
\* rejected as a bad request; NotFound is never the answer of an open or
\* change, and the syntax-error answer is never the answer of getSymbols.
C7_NotFoundIffNoEntryNonEmpty ==
    [][\A r \in Reqs :
         /\ (call'[r].op = "symbols" /\ pc[r] # "done" /\ pc'[r] = "done")
            => IF call'[r].uri = ""
               THEN result'[r].status = "badRequest"
               ELSE /\ result'[r].status = "notFound" <=> call'[r].uri \notin DOMAIN documents
                    /\ call'[r].uri \in DOMAIN documents
                         => result'[r] = Response("ok", documents[call'[r].uri].Symbols)
                    /\ result'[r].status # "internalError"
         /\ (call[r].op \in {"open", "change"} /\ Finishes(r))
            => result'[r].status # "notFound"]_vars

C7_Witness ==
    \E r \in Reqs :
        /\ pc[r] = "done" /\ call[r].op = "symbols" /\ call[r].uri # ""
        /\ call[r].uri \notin DOMAIN documents /\ result[r].status = "notFound"

\* C8: no step of a getSymbols query changes the document map, and a query
\* never enters the parse of parseDocument.
C8_QueryKeepsDocuments ==
    [][\A r \in Reqs :
         (call'[r].op = "symbols" /\ pc'[r] # pc[r])
         => (documents' = documents /\ pc'[r] \in {"rlock", "read", "done"})]_vars

C8_Witness ==
    \E r \in Reqs :
        /\ pc[r] = "done" /\ call[r].op = "symbols" /\ call[r].uri # ""
        /\ result[r].status \in {"ok", "notFound"}

\* C10: a request that is parsing does not hold the document lock and its
\* parse step does not touch the lock; the lock is held for writing only in
\* the commit of parseDocument and the delete of close.
C10_ParseOutsideLock ==
    [][\A r \in Reqs :
         /\ pc[r] = "parse"
            => (mu.writer # r /\ r \notin mu.readers /\ (pc'[r] # pc[r] => mu' = mu))
         /\ mu.writer = r => pc[r] \in {"commit", "closeDelete"}]_vars

\* a query holds the read lock while another request is parsing
C10_Witness ==
    \E r \in Reqs, q \in Reqs :
        /\ pc[r] = "parse" /\ ~HasSyntaxError(call[r].text)
        /\ call[q].op = "symbols" /\ pc[q] = "read" /\ q \in mu.readers

WriterSection == {"commit", "closeDelete"}
ReaderSection == {"read"}

\* C11: a request inside the write section of the document map (the commit
\* of open/change, the delete of close) is alone: no other request is inside
\* a write section or inside the read section at the same time.
C11_WritersExclusive ==
    \A r \in Reqs, q \in Reqs :
        (r # q /\ pc[r] \in WriterSection) => pc[q] \notin WriterSection \cup ReaderSection

\* a writer is inside its section while a query and another writer wait
C11_Witness ==
    \E r \in Reqs, q \in Reqs :
        /\ pc[r] \in WriterSection /\ mu.writer = r
        /\ pc[q] \in {"rlock", "lock", "closeLock"}

\* every stored record is one whole result of parseDocument
WholeRecord(docs) ==
    \A u \in DOMAIN docs :
        /\ docs[u].URI = u
        /\ ~HasSyntaxError(docs[u].Text)
        /\ docs[u].Symbols = extractSymbols(ParseFile(docs[u].Text))

C13_ReopenLikeFirstOpen ==
    [][\A r \in Reqs :
         (Commits(r) /\ call[r].op = "open" /\ call[r].uri \in hClosed)
         => LET uri == call[r].uri
                first == assignDocument(<<>>, uri, call[r].text)
            IN  /\ result'[r].status = first.status
                /\ uri \in DOMAIN documents' <=> uri \in DOMAIN first.docs
                /\ uri \in DOMAIN documents' => documents'[uri] = first.docs[uri]]_vars

\* an open holds the lock for its commit on a uri that was opened and then
\* closed, and the map holds nothing for that uri
C13_Witness ==
    \E r \in Reqs :
        /\ pc[r] = "commit" /\ call[r].op = "open" /\ mu.writer = r
        /\ call[r].uri \in hClosed /\ call[r].uri \notin DOMAIN documents

Unsupported == {"completion", "definition", "hover"}

\* C15: completion, definition and hover answer "not implemented" in every
\* state, in one step, and leave the document map as it is.
C15_UnsupportedAnswer ==
    [][\A r \in Reqs :
         (call'[r].op \in Unsupported /\ pc'[r] # pc[r] /\ pc[r] = "idle")
         => (pc'[r] = "done" /\ result'[r].status = "notImplemented"
               /\ documents' = documents)]_vars

C15_Witness ==
    \E r \in Reqs, q \in Reqs :
        /\ pc[r] = "done" /\ call[r].op \in Unsupported
        /\ result[r].status = "notImplemented"
        /\ pc[q] \in WriterSection

(* ------------------------ claims on the analyzer ---------------------- *)
\* the names of the entries of a list of records with a Name field
Names(list) == {list[i].Name : i \in 1..Len(list)}

\* symbols holds exactly one symbol for each entry of the Functions, Types
\* and Variables lists of res
OnePerEntry(symbols, res) ==
    /\ Len(symbols) = Len(res.Functions) + Len(res.Types) + Len(res.Variables)
    /\ Names(symbols) = Names(res.Functions) \cup Names(res.Types) \cup Names(res.Variables)

\* an analysis request that was answered with a whole AnalysisResult
Analyzed(r) == apc[r] = "done" /\ aresult[r].status = "ok" /\ acall[r].op = "file"

\* C14: an open of text t stores, and a following symbol query returns,
\* exactly one symbol for each entry of the Functions, Types and Variables
\* lists AnalyzeFile produces for t.
C14_SymbolsMatchAnalysis ==
    [][\A r \in Reqs :
         (Commits(r) /\ call[r].op = "open")
         => /\ result'[r].status = "ok"
            /\ call[r].uri \in DOMAIN documents'
            /\ OnePerEntry(documents'[call[r].uri].Symbols,
                           AnalysisResult(ParseFile(call[r].text), HandlerFileSet, <<>>))
            /\ OnePerEntry(extractSymbols(ParseFile(call[r].text)),
                           AnalysisResult(ParseFile(call[r].text), HandlerFileSet, <<>>))]_vars

\* C16: the ComplexityScore of every AnalysisResult is the sum of the
\* Complexity fields of the Functions of that same result.
C16_ScoreIsSumOfOwnFunctions ==
    \A r \in Reqs :
        Analyzed(r) =>
            aresult[r].body.Metrics.ComplexityScore =
                SumSeq([i \in 1..Len(aresult[r].body.Functions) |->
                          aresult[r].body.Functions[i].Complexity], 1)

\* C17: two analyses of the same text on the analyzer return identical
\* results, whatever the analyzer analyzed before or in between.
C17_SameTextSameResult ==
    \A r \in Reqs, q \in Reqs :
        (Analyzed(r) /\ Analyzed(q) /\ acall[r].content = acall[q].content)
        => aresult[r].body = aresult[q].body

\* the complexity map after AnalyzeFile ran on file alone on a new analyzer
RECURSIVE AloneComplexity(_, _)
AloneComplexity(fns, i) ==
    IF i = 0 THEN <<>>
    ELSE MapAssign(AloneComplexity(fns, i - 1), fns[i].name, calculateFunctionComplexity(fns[i]))

AloneResult(content) ==
    LET file == ParseFile(content)
    IN  AnalysisResult(file, HandlerFileSet, AloneComplexity(FuncDecls(file), Len(FuncDecls(file))))

\* C18: concurrent analyses on one analyzer never end the process, and each
\* returns the result it returns when it runs alone.
C18_ConcurrentAnalysesIndependent ==
    /\ ~crashed
    /\ \A r \in Reqs : Analyzed(r) => aresult[r].body = AloneResult(acall[r].content)

\* C19: every FunctionInfo of a successful AnalysisResult has Complexity >= 1.
C19_ComplexityAtLeastOne ==
    \A r \in Reqs :
        Analyzed(r) =>
            \A i \in 1..Len(aresult[r].body.Functions) :
                aresult[r].body.Functions[i].Complexity >= 1

C19_Witness ==
    \E r \in Reqs :
        /\ Analyzed(r)
        /\ \E i \in 1..Len(aresult[r].body.Functions) :
             aresult[r].body.Functions[i].Complexity = 1
        /\ \E q \in Reqs :
             /\ Analyzed(q)
             /\ \E i \in 1..Len(aresult[q].body.Functions) :
                  aresult[q].body.Functions[i].Complexity > 1

\* 1 plus the if, for, range, case, select-comm and boolean binary-operator
\* nodes of the body of fn
BranchingNodes(fn) ==
    1 + Cardinality({j \in 1..Len(Attr(fn, "body", <<>>)) :
                       LET n == Attr(fn, "body", <<>>)[j]
                       IN  \/ n.node \in {"IfStmt", "ForStmt", "RangeStmt", "CaseClause", "CommClause"}
                           \/ n.node = "BinaryExpr" /\ n.op \in {"&&", "||"}})

\* C20: the Complexity of a function is 1 plus the number of its if, for,
\* range, case, select-comm and boolean binary-operator nodes; an arithmetic
\* binary operator adds nothing.
C20_ComplexityCountsBranching ==
    \A r \in Reqs :
        Analyzed(r) =>
            \A i \in 1..Len(aresult[r].body.Functions) :
                aresult[r].body.Functions[i].Complexity =
                    BranchingNodes(FuncDecls(ParseFile(acall[r].content))[i])

(* ------------------- claims on imports and diagnostics ---------------- *)
\* the file an analysis request analyzed
FileOf(r) == ParseFile(acall[r].content)

\* the name a file uses for an import: its alias, else the path
LocalName(imp) == IF imp.name # "" THEN imp.name ELSE imp.path

\* the number of qualified accesses name.X in the bodies of file
QualifiedUses(file, name) ==
    Cardinality({j \in 1..Len(BodyNodes(file, 1)) :
                   /\ BodyNodes(file, 1)[j].node = "SelectorExpr"
                   /\ BodyNodes(file, 1)[j].x = name})

\* the 0-based position in the source text of column column of node n
SourcePosition(n, column) == [Line |-> n.line - 1, Character |-> column - 1]

\* the diagnostics of result body with code code about subject
DiagnosticsOf(body, code, subject) ==
    {i \in 1..Len(body.Diagnostics) :
       body.Diagnostics[i].Code = code /\ body.Diagnostics[i].Message[2] = subject}

\* C21: every import without a qualified use of its local name has exactly
\* one warning unused-import for its path, located at the import declaration.
C21_UnusedImportDiagnosed ==
    \A r \in Reqs :
        Analyzed(r) =>
            \A k \in 1..Len(ImportSpecs(FileOf(r))) :
                LET imp == ImportSpecs(FileOf(r))[k]
                    ds == DiagnosticsOf(aresult[r].body, "unused-import", imp.path)
                IN  QualifiedUses(FileOf(r), LocalName(imp)) = 0
                    => /\ Cardinality(ds) = 1
                       /\ \A i \in ds :
                            /\ aresult[r].body.Diagnostics[i].Severity = "warning"
                            /\ aresult[r].body.Diagnostics[i].Range.Start =
                                   SourcePosition(imp, PosColumn(imp))

\* C22: an import with at least one qualified use has Used = TRUE in its
\* ImportInfo and no unused-import diagnostic.
C22_UsedImportNotDiagnosed ==
    \A r \in Reqs :
        Analyzed(r) =>
            \A k \in 1..Len(ImportSpecs(FileOf(r))) :
                LET imp == ImportSpecs(FileOf(r))[k]
                IN  QualifiedUses(FileOf(r), LocalName(imp)) >= 1
                    => /\ aresult[r].body.Imports[k].Used
                       /\ DiagnosticsOf(aresult[r].body, "unused-import", imp.path) = {}

\* C23: every exported function without documentation has exactly one info
\* diagnostic missing-doc located at its name; other functions have none.
C23_MissingDocDiagnosed ==
    \A r \in Reqs :
        Analyzed(r) =>
            \A k \in 1..Len(FuncDecls(FileOf(r))) :
                LET fn == FuncDecls(FileOf(r))[k]
                    ds == DiagnosticsOf(aresult[r].body, "missing-doc", fn.name)
                IN  IF IsExported(fn.name) /\ Attr(fn, "doc", 0) = 0
                    THEN /\ Cardinality(ds) = 1
                         /\ \A i \in ds :
                              /\ aresult[r].body.Diagnostics[i].Severity = "info"
                              /\ aresult[r].body.Diagnostics[i].Range.Start =
                                     SourcePosition(fn, NameColumn(fn))
                    ELSE ds = {}

\* the place of a rule in the registration order
RuleRank(code) == IF code = "unused-import" THEN 1 ELSE 2

\* the declaration of file a diagnostic is about
SubjectIndex(file, d) ==
    CHOOSE k \in 1..Len(file) :
        /\ DeclName(file[k]) = d.Message[2]
        /\ (file[k].kind = "import") = (d.Code = "unused-import")

C26_DefinitionsReferenced ==
    \A r \in Reqs :
        Analyzed(r) =>
            \A j \in 1..Len(Idents(FileOf(r), 1)) :
                Idents(FileOf(r), 1)[j].binds
                => Cardinality({ref \in aresult[r].body.References :
                                  ref.Name = Idents(FileOf(r), 1)[j].Name}) = 1

\* a call of AnalyzePackage that returned its result
PackageAnalyzed(r) == apc[r] = "done" /\ aresult[r].status = "ok" /\ acall[r].op = "package"

\* C28: the metrics of AnalyzePackage are the sums over its files: the counts
\* are those of all the files together, and the ComplexityScore is the sum
\* of the complexities of all functions of all the files.
C28_PackageMetricsAreSums ==
    \A r \in Reqs :
        PackageAnalyzed(r) =>
            LET res == aresult[r].body
            IN  /\ res.Metrics.FunctionCount = Len(res.Functions)
                /\ res.Metrics.StructCount + res.Metrics.InterfaceCount <= Len(res.Types)
                /\ res.Metrics.ComplexityScore =
                       SumSeq([i \in 1..Len(res.Functions) |-> res.Functions[i].Complexity], 1)

\* position a is at or before position b: line first, then character
AtOrBefore(a, b) == a.Line < b.Line \/ (a.Line = b.Line /\ a.Character <= b.Character)

\* every range of result body starts at or before its end
RangesOrdered(body) ==
    /\ \A i \in 1..Len(body.Functions) :
         AtOrBefore(body.Functions[i].Range.Start, body.Functions[i].Range.End)
    /\ \A i \in 1..Len(body.Types) :
         AtOrBefore(body.Types[i].Range.Start, body.Types[i].Range.End)
    /\ \A i \in 1..Len(body.Variables) :
         AtOrBefore(body.Variables[i].Range.Start, body.Variables[i].Range.End)
    /\ \A i \in 1..Len(body.Diagnostics) :
         AtOrBefore(body.Diagnostics[i].Range.Start, body.Diagnostics[i].Range.End)
    /\ \A ref \in body.References :
         /\ AtOrBefore(ref.Range.Start, ref.Range.End)
         /\ \A i \in 1..Len(ref.UsedAt) : AtOrBefore(ref.UsedAt[i].Start, ref.UsedAt[i].End)

\* C29: every range of an analysis result, and of the symbols extracted
\* for a document from the same text, starts at or before its end.
C29_RangesStartBeforeEnd ==
    \A r \in Reqs :
        /\ (Analyzed(r) \/ PackageAnalyzed(r)) => RangesOrdered(aresult[r].body)
        /\ Analyzed(r) =>
             \A i \in 1..Len(extractSymbols(FileOf(r))) :
                 AtOrBefore(extractSymbols(FileOf(r))[i].Range.Start,
                            extractSymbols(FileOf(r))[i].Range.End)

C29_Witness ==
    \E r \in Reqs, q \in Reqs :
        /\ Analyzed(r)
        /\ aresult[r].body.Diagnostics # <<>>
        /\ \E i \in 1..Len(extractSymbols(FileOf(r))) :
              extractSymbols(FileOf(r))[i].Range.Start.Line < extractSymbols(FileOf(r))[i].Range.End.Line
        /\ PackageAnalyzed(q)
        /\ \E i \in 1..Len(aresult[q].body.Functions) :
              /\ aresult[q].body.Functions[i].Range.Start.Line < aresult[q].body.Functions[i].Range.End.Line
              /\ aresult[q].body.Functions[i].Range.Start.Character < aresult[q].body.Functions[i].Range.End.Character
        /\ aresult[q].body.Types # <<>>
        /\ aresult[q].body.Variables # <<>>

(* ------------------ claims on the specification processor ------------- *)
\* C30: ProcessFile on a .json file whose object has an "openapi" key, with
\* or without an "info" key, creates exactly one context, with id
\* "openapi-<base name>" and type "openapi".
C30_OpenAPIJSONRegistered ==
    (/\ ppc = "done"
     /\ perr = "nil"
     /\ ToLowerExt(pfile.ext) = ".json"
     /\ pfile.parses
     /\ "openapi" \in pfile.keys)
    => pcreated = <<[id |-> "openapi-" \o pfile.base, type |-> "openapi"]>>

\* the regular files among the entries of a directory
RegularFiles(entries) == SelectSeq(entries, LAMBDA e : ~IsDir(e))

\* the files of the ProcessFile calls that returned
AttemptedFiles == [i \in 1..Len(pattempted) |-> pattempted[i].file]

\* C31: ProcessDirectory on a readable directory calls ProcessFile once for
\* every regular file, in order, whatever the earlier calls returned, and
\* returns nil.
C31_DirectoryAttemptsEveryFile ==
    /\ (pdpc = "loop" /\ ppc = "idle")
       => AttemptedFiles \o RegularFiles(pqueue) = RegularFiles(pdir.entries)
    /\ (pdpc = "done" /\ pdir.readable)
       => /\ pderr = "nil"
          /\ AttemptedFiles = RegularFiles(pdir.entries)

C31_Witness ==
    /\ pdpc = "done"
    /\ pderr = "nil"
    /\ Len(pattempted) >= 3
    /\ pattempted[1].err # "nil"
    /\ pattempted[2].err # "nil"
    /\ pattempted[3].err = "nil"
    /\ \E e \in 1..Len(pdir.entries) : IsDir(pdir.entries[e])

(* ------------------------- the curl processor ------------------------- *)
CurlOptions == {"-X", "--request", "-H", "--header", "-d", "--data", "--data-raw", "-u", "--user"}
IsURL(str) == HasPrefix(str, "http://") \/ HasPrefix(str, "https://")
ArgTexts(args) == [i \in 1..Len(args) |-> args[i].s]

\* the arguments standing at the place of an option (not at the place of an
\* option's value), from i on, as <<position, text>>
RECURSIVE OptionPlaces(_, _)
OptionPlaces(texts, i) ==
    IF i > Len(texts) THEN <<>>
    ELSE IF texts[i] \in CurlOptions /\ i + 1 <= Len(texts)
    THEN <<i>> \o OptionPlaces(texts, i + 2)
    ELSE <<i>> \o OptionPlaces(texts, i + 1)

Places(texts) == {OptionPlaces(texts, 1)[k] : k \in 1..Len(OptionPlaces(texts, 1))}
\* the URL arguments outside the value position of an option
URLArguments(texts) == {texts[i] : i \in {j \in Places(texts) : IsURL(texts[j])}}
\* the values given with the options of a set, in the order of the command
ValuesOf(texts, options) ==
    SelectSeq([i \in 1..Len(texts) |-> IF i \in Places(texts) /\ texts[i] \in options
                                               /\ i + 1 <= Len(texts)
                                        THEN <<texts[i + 1]>> ELSE <<>>],
              LAMBDA v : v # <<>>)

ParsedCommand == cpc = "done" /\ ccall.op = "ParseCurlCommand"

\* C32: ParseCurlCommand returns an error exactly when the command has no
\* argument beginning with http:// or https:// outside the value position
\* of an option; otherwise the URL of the returned command is such an
\* argument.
C32_ErrorIffNoURLArgument ==
    ParsedCommand =>
        LET urls == URLArguments(ArgTexts(ccall.args))
        IN  /\ (ccommand.err # "nil") <=> (urls = {})
            /\ ccommand.err = "nil" => ccommand.cmd.URL \in urls

\* C33: the Method of a parsed command is the value given with -X/--request
\* when one is given, whatever the order of the options; without it POST
\* when a data option is present and GET otherwise.
C33_MethodFromRequestOption ==
    (ParsedCommand /\ ccommand.err = "nil") =>
        LET texts == ArgTexts(ccall.args)
            given == ValuesOf(texts, {"-X", "--request"})
            data == ValuesOf(texts, {"-d", "--data", "--data-raw"})
        IN  ccommand.cmd.Method =
                IF given # <<>> THEN given[Len(given)][1]
                ELSE IF data # <<>> THEN "POST"
                ELSE "GET"

\* the commands of a content: blank lines apart, every line that ends in a
\* backslash is joined with the line after it
RECURSIVE CommandsOf(_, _, _)
CommandsOf(lines, i, joined) ==
    IF i > Len(lines) THEN IF joined = "" THEN <<>> ELSE <<joined>>
    ELSE LET line == TrimSpace(lines[i])
         IN  IF line = "" THEN CommandsOf(lines, i + 1, joined)
             ELSE IF HasSuffix(line, "\\")
             THEN CommandsOf(lines, i + 1, joined \o TrimSuffix(line, "\\") \o " ")
             ELSE <<joined \o line>> \o CommandsOf(lines, i + 1, "")

ParsedCollection == cpc \in {"create", "done"} /\ ccollection # NoCollection

\* C34: ParseCurlCollection returns the commands of the content that parse,
\* in the order of the content, and the error "no valid curl commands
\* found" exactly when none parses.
C34_CollectionInOrder ==
    ParsedCollection =>
        LET expected == parseAll(CommandsOf(ccall.lines, 1, ""), 1)
        IN  IF expected = <<>>
            THEN ccollection.err = "no valid curl commands found"
            ELSE /\ ccollection.err = "nil"
                 /\ ccollection.Commands = expected

(* ---------------------------- MemoryStore ----------------------------- *)
\* what a Get(id) returns, with the contents of the nested map objects
Returned(id) ==
    IF id \notin DOMAIN stored THEN <<"ErrContextNotFound">>
    ELSE LET entries == Clone(stored[id]).Metadata.entries
         IN  <<"nil", id,
               [k \in DOMAIN entries |->
                   IF entries[k].kind = "map" THEN <<"map", heap[entries[k].ref]>>
                   ELSE <<"string", entries[k].v>>]>>

\* C35: the contexts held by the store are isolated from the caller: no
\* mutation the caller makes to the context it passed to Create or Update or
\* got from Get, values nested inside Metadata included, changes what a later
\* Get(id) returns.
C35_StoreIsolatedFromCaller ==
    [][sop'.name \in {"CallerSetKey", "CallerSetNested"}
          => \A id \in StoreIDs : Returned(id)' = Returned(id)]_svars

C36_LockReleased ==
    /\ [](\A r \in Reqs : pc[r] \in {"idle", "done"} => (mu.writer # r /\ r \notin mu.readers))
    /\ \A r \in Reqs : (mu.writer = r) ~> (mu.writer # r)
    /\ \A r \in Reqs : (pc[r] # "idle") ~> (pc[r] = "done")

C36_Witness ==
    \E r \in Reqs :
        /\ pc[r] = "done"
        /\ call[r].op \in {"open", "change"}
        /\ result[r].status = "panic"
        /\ MuFree
        /\ \E q \in Reqs \ {r} : pc[q] \in {"lock", "closeLock"}

(* ---------------------------- TaskManager ----------------------------- *)
\* C38: after StopTask(id) has returned without error, the Status of the
\* task eventually becomes "stopped" and then never changes again.
C38_StoppedForGood ==
    \A id \in TaskIDs :
        (id \in tstopped) ~> [](id \in DOMAIN tasks /\ tasks[id].Status = "stopped")

Running(id) == gpc[id] \in {"select", "execute", "sleep"}

\* C39: StartTask refuses an id with the "already running" error only while
\* a task with that id is running: the goroutine of the task has not
\* returned.
C39_RefusedOnlyWhileRunning ==
    (tlast.name = "StartTask" /\ tlast.err = "already running") => Running(tlast.id)

(* ----------------------------- SSHManager ----------------------------- *)
\* C40: once a disconnect of a client has succeeded, no connection of that
\* client is open any more and none is opened later, also when an exec,
\* upload or download for the same id runs at the same time.
C40_NoConnectionAfterDisconnect ==
    \A client \in hDisconnected : client \notin openConns
====
